---------------------------- MODULE Spec2Model ----------------------------
(***************************************************************************)
(* A model of the match-prediction engine of betting-predictor:            *)
(*   betting/models.py, betting/predictor.py,                              *)
(*   betting/enhanced_predictor.py, betting/enhanced_predictor_fixed.py,   *)
(*   betting/main.py and test_prediction.py.                               *)
(*                                                                         *)
(* Python floats are modelled as fixed-point integers: the real r is the   *)
(* integer round(r * Scale).  Every decimal literal of the source is       *)
(* written Dec(n, d) = n/d so that the model does not depend on the value  *)
(* of Scale.  TLC integers are 32 bits wide, hence Mul and Div split       *)
(* their operands instead of forming a * b.                                *)
(***************************************************************************)
EXTENDS Integers, Sequences, FiniteSets, TLC

(***************************************************************************)
(* Fixed-point arithmetic                                                  *)
(***************************************************************************)
Scale == 10000

Min(a, b) == IF a <= b THEN a ELSE b
Max(a, b) == IF a >= b THEN a ELSE b
Abs(a) == IF a >= 0 THEN a ELSE -a

\* the decimal n/d, n >= 0, d > 0
Dec(n, d) == (n * Scale + d \div 2) \div d

\* a * b for a fixed-point a (any sign) and a fixed-point b >= 0,
\* rounded to the nearest unit
Mul(a, b) ==
  LET q == a \div Scale
      r == a % Scale
  IN  q * b + (r * b + Scale \div 2) \div Scale

\* a / b for fixed-point a (any sign) and b > 0
Div(a, b) ==
  LET q == a \div b
      r == a % b
  IN  q * Scale + (r * Scale + b \div 2) \div b

\* fixed-point a divided by the integer n > 0
DivInt(a, n) == (2 * a + n) \div (2 * n)

\* math.exp(-x) for a fixed-point x >= 0: e^-1 to the power of the integer
\* part times the Taylor series of the fractional part
RECURSIVE ExpTaylor(_, _, _, _)
ExpTaylor(f, j, term, acc) ==
  IF j > 10 \/ term = 0 THEN acc
  ELSE LET t == DivInt(Mul(term, f), j)
       IN  ExpTaylor(f, j + 1, t, IF j % 2 = 1 THEN acc - t ELSE acc + t)

RECURSIVE ExpNegInt(_)
ExpNegInt(n) == IF n = 0 THEN Scale ELSE Mul(ExpNegInt(n - 1), Dec(36788, 100000))

ExpNeg(x) == Mul(ExpNegInt(x \div Scale), ExpTaylor(x % Scale, 1, Scale, Scale))

(***************************************************************************)
(* The Poisson mass  e^-mu * mu^k / k!  for k = 0..G as a sequence         *)
(* (element k+1 is the mass of k), mu > 0.  The value at the mode          *)
(* m = min(floor(mu), G) is formed as the product over i = 1..m of         *)
(* (mu/i) * e^(-mu/m), whose partial products stay of order 1, and the     *)
(* other values follow by  p(k+1) = p(k) * mu/(k+1)  and                   *)
(* p(k-1) = p(k) * k/mu:  the same numbers as the source's formula, in an  *)
(* order of evaluation that keeps the fixed-point precision.               *)
(***************************************************************************)
RECURSIVE ModeMass(_, _, _, _)
ModeMass(mu, q, i, acc) ==
  IF i = 0 THEN acc
  ELSE ModeMass(mu, q, i - 1, Mul(Mul(acc, DivInt(mu, i)), q))

RECURSIVE MassUp(_, _, _, _)
MassUp(mu, k, G, p) ==
  IF k >= G THEN << >>
  ELSE LET nxt == DivInt(Mul(mu, p), k + 1)
       IN  <<nxt>> \o MassUp(mu, k + 1, G, nxt)

RECURSIVE MassDown(_, _, _)
MassDown(mu, k, p) ==
  IF k = 0 THEN << >>
  ELSE LET prv == Div(p * k, mu)
       IN  MassDown(mu, k - 1, prv) \o <<prv>>

PoissonRow(mu, G) ==
  LET m  == Min(mu \div Scale, G)
      pm == IF m = 0 THEN ExpNeg(mu)
            ELSE ModeMass(mu, ExpNeg(DivInt(mu, m)), m, Scale)
  IN  MassDown(mu, m, pm) \o <<pm>> \o MassUp(mu, m, G, pm)

\* Python's round(x) of a float x: to the nearest integer, ties to even
RoundHalfEven(x) ==
  LET q == x \div Scale
      r == x % Scale
  IN  IF 2 * r < Scale THEN q
      ELSE IF 2 * r > Scale THEN q + 1
      ELSE IF q % 2 = 0 THEN q ELSE q + 1

\* scipy.stats.poisson.pmf(k, mu) for k = 0..G, mu >= 0  (p(0;0) = 1)
PoissonPmfRow(mu, G) == PoissonRow(mu, G)

\* sum(row[k] for k in lo..hi)
RECURSIVE RowSum(_, _, _)
RowSum(row, lo, hi) == IF lo > hi THEN 0 ELSE row[lo + 1] + RowSum(row, lo + 1, hi)

RECURSIVE SeqSum(_)
SeqSum(seq) == IF seq = << >> THEN 0 ELSE Head(seq) + SeqSum(Tail(seq))

\* the sum of p_home * p_away over the cells (h, a) of the grid with
\* lo[h + 1] <= a <= hi[h + 1], in units of 1 / Scale^2 (the products are not
\* rounded, so the order of the additions does not matter)
JointMass(rowH, rowA, lo, hi) ==
  SeqSum([i \in 1..Len(rowH) |->
            rowH[i] * RowSum(rowA, Max(0, lo[i]), Min(Len(rowA) - 1, hi[i]))])

\* h > a, h = a and h < a on the grid 0..G x 0..G
HomeWinMass(rowH, rowA, G) ==
  JointMass(rowH, rowA, [i \in 1..(G + 1) |-> 0], [i \in 1..(G + 1) |-> i - 2])

DrawMass(rowH, rowA, G) ==
  JointMass(rowH, rowA, [i \in 1..(G + 1) |-> i - 1], [i \in 1..(G + 1) |-> i - 1])

AwayWinMass(rowH, rowA, G) ==
  JointMass(rowH, rowA, [i \in 1..(G + 1) |-> i], [i \in 1..(G + 1) |-> G])

\* a mass in units of 1 / Scale^2 as a fixed-point number
FromJoint(j) == (j + Scale \div 2) \div Scale

(***************************************************************************)
(* Data model (betting/models.py)                                          *)
(***************************************************************************)
\* a score the provider has not resolved (goals.get('home') is None)
NoScore == -1

\* TeamStats(...) as the predictors construct it; the averages keep the
\* dataclass defaults 0.0 until calculate_averages runs; `none` marks
\* Python's None in place of a record
TeamStats(team_id, mp, gs, gc, cs, fts, form) ==
  [none |-> FALSE, team_id |-> team_id, matches_played |-> mp, goals_scored |-> gs,
   goals_conceded |-> gc, clean_sheets |-> cs, failed_to_score |-> fts,
   form |-> form, avg_goals_scored |-> 0, avg_goals_conceded |-> 0]

calculate_averages(ts) ==
  IF ts.matches_played > 0
  THEN [ts EXCEPT !.avg_goals_scored = DivInt(ts.goals_scored * Scale, ts.matches_played),
                  !.avg_goals_conceded = DivInt(ts.goals_conceded * Scale, ts.matches_played)]
  ELSE ts

\* HeadToHeadStats(...): `none` marks Python's None in place of a record
HeadToHeadStats(total, hw, aw, d, gf, ga, matches) ==
  [none |-> FALSE, total_matches |-> total, home_wins |-> hw, away_wins |-> aw,
   draws |-> d, goals_for |-> gf, goals_against |-> ga, matches |-> matches]

NoneH2H ==
  [none |-> TRUE, total_matches |-> 0, home_wins |-> 0, away_wins |-> 0,
   draws |-> 0, goals_for |-> 0, goals_against |-> 0, matches |-> << >>]

NoneStats == [TeamStats(0, 0, 0, 0, 0, 0, << >>) EXCEPT !.none = TRUE]

\* a date the provider sent in no ISO format (match_date = None); real dates
\* are the positive integers
NoDate == 0

\* Team.from_api returns None for empty team data; real teams are given by
\* their positive ids
NoTeam == 0

\* the Match that Match.from_api returns: the fields of the dataclass, the
\* two Team objects given by their ids
Match(id, home_id, away_id, date, league_id, hs, as) ==
  [id |-> id, home_team |-> home_id, away_team |-> away_id, date |-> date,
   league_id |-> league_id, league_name |-> "league", country |-> "country",
   status |-> "NS", home_score |-> hs, away_score |-> as]

\* a past meeting of a head-to-head response
Meeting(date, home_id, away_id, hs, as) == Match(0, home_id, away_id, date, 0, hs, as)

\* the provider's replies: a failed request (None, or no 'response') or a body
StatsReply(mp, gs, gc, cs, fts, form) ==
  [ok |-> TRUE, played |-> mp, goals_for |-> gs, goals_against |-> gc,
   clean_sheet |-> cs, failed_to_score |-> fts, form |-> form]
FailedStatsReply == [StatsReply(0, 0, 0, 0, 0, << >>) EXCEPT !.ok = FALSE]
H2HReply(meetings) == [ok |-> TRUE, response |-> meetings]
FailedH2HReply == [ok |-> FALSE, response |-> << >>]

(***************************************************************************)
(* betting/enhanced_predictor.py                                           *)
(***************************************************************************)
league_avg_home_goals == Dec(15, 10)
league_avg_away_goals == Dec(12, 10)
league_avg_home_conceded == Dec(12, 10)
league_avg_away_conceded == Dec(15, 10)

\* form_string[-n:]
LastN(form, n) ==
  IF Len(form) <= n THEN form ELSE SubSeq(form, Len(form) - n + 1, Len(form))

\* the loop of calculate_form_factor over reversed(form_string), from index i:
\* <<form_value, total_weight>>
RECURSIVE FormFactorLoop(_, _)
FormFactorLoop(form, i) ==
  IF i >= Len(form) THEN <<0, 0>>
  ELSE LET result == form[Len(form) - i]
           weight == ExpNeg(i * Dec(2, 10))
           rest   == FormFactorLoop(form, i + 1)
           gain   == IF result = "W" THEN Mul(Dec(12, 10), weight)
                     ELSE IF result = "D" THEN weight
                     ELSE IF result = "L" THEN Mul(Dec(8, 10), weight)
                     ELSE 0
       IN  <<gain + rest[1], weight + rest[2]>>

calculate_form_factor(form) ==
  IF form = << >> THEN Scale
  ELSE LET s == FormFactorLoop(form, 0)
       IN  IF s[2] > 0 THEN Div(s[1], s[2]) ELSE Scale

\* the number of i in 1..len-1 with form[i] != form[i-1]
Transitions(form) == Cardinality({i \in 2..Len(form) : form[i] # form[i - 1]})

calculate_form_consistency(form) ==
  IF Len(form) < 3 THEN Dec(7, 10)
  ELSE LET consistency ==
             Scale - Mul(DivInt(Transitions(form) * Scale, Len(form) - 1), Dec(5, 10))
       IN  Max(Dec(5, 10), Min(Scale, consistency))

\* sorted(..., key=date, reverse=True): stable, most recent first
RECURSIVE InsertByDate(_, _)
InsertByDate(m, sorted) ==
  IF sorted = << >> THEN <<m>>
  ELSE IF Head(sorted).date >= m.date THEN <<Head(sorted)>> \o InsertByDate(m, Tail(sorted))
  ELSE <<m>> \o sorted

RECURSIVE SortByDateDesc(_)
SortByDateDesc(ms) ==
  IF ms = << >> THEN << >>
  ELSE InsertByDate(ms[Len(ms)], SortByDateDesc(SubSeq(ms, 1, Len(ms) - 1)))

Resolved(ms) == SelectSeq(ms, LAMBDA m : m.home_score # NoScore /\ m.away_score # NoScore)

\* the recency-weighted loop over every entry of recent_matches
RECURSIVE AllMatchesLoop(_, _, _)
AllMatchesLoop(recent, home_id, i) ==
  IF i >= Len(recent) THEN <<0, 0, 0>>
  ELSE LET match  == recent[i + 1]
           weight == ExpNeg(i * Dec(3, 10))
           rest   == AllMatchesLoop(recent, home_id, i + 1)
           hg     == IF match.home_team = home_id THEN match.home_score ELSE match.away_score
           ag     == IF match.home_team = home_id THEN match.away_score ELSE match.home_score
       IN  <<hg * weight + rest[1], ag * weight + rest[2], weight + rest[3]>>

\* the recency-weighted loop over recent_matches[:5], from index i:
\* <<h2h_home_goals, h2h_away_goals, h2h_weights_sum>>
RECURSIVE H2HLoop(_, _, _)
H2HLoop(recent, home_id, i) ==
  IF i >= Min(Len(recent), 5) THEN <<0, 0, 0>>
  ELSE LET match  == recent[i + 1]
           weight == ExpNeg(i * Dec(3, 10))
           rest   == H2HLoop(recent, home_id, i + 1)
           hg     == IF match.home_team = home_id THEN match.home_score ELSE match.away_score
           ag     == IF match.home_team = home_id THEN match.away_score ELSE match.home_score
       IN  <<hg * weight + rest[1], ag * weight + rest[2], weight + rest[3]>>

\* predict_score, lines 295-316: strengths, base rates, form, home advantage
FormAdjusted(rate, form) ==
  IF Len(form) >= 5 THEN Mul(rate, calculate_form_factor(LastN(form, 5))) ELSE rate

\* base rates with the attack-strength ratios upside down
InvertedBaseRates(home_stats, away_stats) ==
  LET home_attack_strength  == Div(Max(Dec(5, 10), league_avg_home_goals), Max(Dec(5, 10), home_stats.avg_goals_scored))
      away_defense_weakness == Div(away_stats.avg_goals_conceded, Max(Dec(5, 10), league_avg_away_conceded))
      away_attack_strength  == Div(Max(Dec(5, 10), league_avg_away_goals), Max(Dec(5, 10), away_stats.avg_goals_scored))
      home_defense_weakness == Div(home_stats.avg_goals_conceded, Max(Dec(5, 10), league_avg_home_conceded))
      home0 == Mul(Mul(home_attack_strength, away_defense_weakness), league_avg_home_goals)
      away0 == Mul(Mul(away_attack_strength, home_defense_weakness), league_avg_away_goals)
  IN  <<Mul(FormAdjusted(home0, home_stats.form), Dec(12, 10)),
        Mul(FormAdjusted(away0, away_stats.form), Dec(85, 100))>>

ScoreBaseRates(home_stats, away_stats) ==
  LET home_attack_strength  == Div(home_stats.avg_goals_scored, Max(Dec(5, 10), league_avg_home_goals))
      away_defense_weakness == Div(away_stats.avg_goals_conceded, Max(Dec(5, 10), league_avg_away_conceded))
      away_attack_strength  == Div(away_stats.avg_goals_scored, Max(Dec(5, 10), league_avg_away_goals))
      home_defense_weakness == Div(home_stats.avg_goals_conceded, Max(Dec(5, 10), league_avg_home_conceded))
      home0 == Mul(Mul(home_attack_strength, away_defense_weakness), league_avg_home_goals)
      away0 == Mul(Mul(away_attack_strength, home_defense_weakness), league_avg_away_goals)
  IN  <<Mul(FormAdjusted(home0, home_stats.form), Dec(12, 10)),
        Mul(FormAdjusted(away0, away_stats.form), Dec(85, 100))>>

\* predict_score, lines 318-352: the head-to-head blend of a pair of rates
h2h_weight(h2h_stats) == Min(Dec(4, 10), Min(h2h_stats.total_matches, 4) * Dec(1, 10))

ScoreH2HBlend(rates, home_stats, h2h_stats) ==
  IF h2h_stats.none \/ h2h_stats.total_matches <= 0 THEN rates
  ELSE LET recent == SortByDateDesc(Resolved(h2h_stats.matches))
           s      == H2HLoop(recent, home_stats.team_id, 0)
           w      == h2h_weight(h2h_stats)
       IN  IF s[3] > 0
           THEN <<Mul(rates[1], Scale - w) + Mul(Div(s[1], s[3]), w),
                  Mul(rates[2], Scale - w) + Mul(Div(s[2], s[3]), w)>>
           ELSE rates

\* predict_score, lines 354-365: clean-sheet and scoring-consistency dampers
Rate(count, matches_played) == DivInt(count * Scale, Max(1, matches_played))

ScoreDampers(rates, home_stats, away_stats) ==
  LET away1 == IF Rate(home_stats.clean_sheets, home_stats.matches_played) > Dec(4, 10)
               THEN Mul(rates[2], Dec(9, 10)) ELSE rates[2]
      home1 == IF Rate(away_stats.clean_sheets, away_stats.matches_played) > Dec(4, 10)
               THEN Mul(rates[1], Dec(9, 10)) ELSE rates[1]
      home_scoring_consistency == Scale - Rate(home_stats.failed_to_score, home_stats.matches_played)
      away_scoring_consistency == Scale - Rate(away_stats.failed_to_score, away_stats.matches_played)
  IN  <<Mul(home1, Max(Dec(8, 10), home_scoring_consistency)),
        Mul(away1, Max(Dec(8, 10), away_scoring_consistency))>>

ScoreRates(home_stats, away_stats, h2h_stats) ==
  ScoreDampers(ScoreH2HBlend(ScoreBaseRates(home_stats, away_stats), home_stats, h2h_stats),
               home_stats, away_stats)

\* predict_score, lines 367-389: the scan of the 0..5 x 0..5 grid
max_goals_score == 5

\* the inner loop over a from cell (h, a), then the outer loop over h: the
\* pair <<max_probability, <<most_likely_home_score, most_likely_away_score>>>>
RECURSIVE ScoreScanRow(_, _, _, _, _)
ScoreScanRow(rowH, rowA, h, a, best) ==
  IF a > max_goals_score THEN best
  ELSE LET probability == rowH[h + 1] * rowA[a + 1]
       IN  ScoreScanRow(rowH, rowA, h, a + 1,
                        IF probability > best[1] THEN <<probability, <<h, a>>>> ELSE best)

RECURSIVE ScoreScan(_, _, _, _)
ScoreScan(rowH, rowA, h, best) ==
  IF h > max_goals_score THEN best
  ELSE ScoreScan(rowH, rowA, h + 1, ScoreScanRow(rowH, rowA, h, 0, best))

\* poisson.pmf(k, mu) is nan for mu < 0 and no comparison with nan is true, so
\* the scan then leaves the rounded rates in place
ScoreMostLikely(rates, use_poisson) ==
  LET rounded == <<RoundHalfEven(rates[1]), RoundHalfEven(rates[2])>>
  IN  IF use_poisson /\ rates[1] >= 0 /\ rates[2] >= 0
      THEN ScoreScan(PoissonPmfRow(rates[1], max_goals_score),
                     PoissonPmfRow(rates[2], max_goals_score), 0, <<0, rounded>>)[2]
      ELSE rounded

\* a matches factor that ignores how many matches were played
FlatMatchesFactor(home_stats, away_stats) == Dec(7, 10)

\* predict_score, lines 391-423: the confidence
MatchesFactor(home_stats, away_stats) ==
  IF home_stats.matches_played >= 15 /\ away_stats.matches_played >= 15 THEN Scale
  ELSE IF home_stats.matches_played >= 10 /\ away_stats.matches_played >= 10 THEN Dec(9, 10)
  ELSE IF home_stats.matches_played >= 5 /\ away_stats.matches_played >= 5 THEN Dec(7, 10)
  ELSE Dec(5, 10)

H2HFactor(h2h_stats) ==
  IF ~h2h_stats.none /\ h2h_stats.total_matches >= 5 THEN Scale
  ELSE IF ~h2h_stats.none /\ h2h_stats.total_matches >= 3 THEN Dec(85, 100)
  ELSE IF ~h2h_stats.none /\ h2h_stats.total_matches >= 1 THEN Dec(7, 10)
  ELSE Dec(6, 10)

\* sum(f * w for f, w in zip(confidence_factors, weights)) / sum(weights):
\* zip stops at the shorter list
RECURSIVE ZipDot(_, _)
ZipDot(fs, ws) ==
  IF fs = << >> \/ ws = << >> THEN 0
  ELSE Mul(Head(fs), Head(ws)) + ZipDot(Tail(fs), Tail(ws))

ConfidenceWeights == <<Dec(4, 10), Dec(3, 10), Dec(3, 10)>>

WeightedConfidence(confidence_factors) ==
  Div(ZipDot(confidence_factors, ConfidenceWeights),
      ConfidenceWeights[1] + ConfidenceWeights[2] + ConfidenceWeights[3])

ScoreConfidenceFactors(home_stats, away_stats, h2h_stats) ==
  <<MatchesFactor(home_stats, away_stats), H2HFactor(h2h_stats)>> \o
  (IF home_stats.form # << >> /\ away_stats.form # << >>
   THEN <<DivInt(calculate_form_consistency(home_stats.form)
                 + calculate_form_consistency(away_stats.form), 2)>>
   ELSE << >>)

\* predict_score: the returned triple and the pair it stores in
\* self.most_likely_score
\* self.most_likely_score after predict_score (lines 386 and 389), given its
\* value before the call
\* a predict_score that keeps a pair stored by an earlier call
KeptScore(self_score, rates, use_poisson) ==
  IF self_score # <<0, 0>> THEN self_score ELSE ScoreMostLikely(rates, use_poisson)

StoredScore(self_score, rates, use_poisson) == ScoreMostLikely(rates, use_poisson)

predict_score(self_score, home_stats, away_stats, h2h_stats, use_poisson) ==
  LET rates == ScoreRates(home_stats, away_stats, h2h_stats)
  IN  [home_expected_goals |-> rates[1],
       away_expected_goals |-> rates[2],
       confidence |-> WeightedConfidence(ScoreConfidenceFactors(home_stats, away_stats, h2h_stats)),
       most_likely_score |-> StoredScore(self_score, rates, use_poisson)]

\* round(x * 100, 1) of a fixed-point x, in tenths of a percent, and
\* round(x, 2) in hundredths
RoundPercent1(x) == (x * 1000 + Scale \div 2) \div Scale
Round2(x) == (x * 100 + Scale \div 2) \div Scale

Clamp01(x) == Max(0, Min(Scale, x))

\* predict_over_under, lines 201-216
OverUnderRates(home_stats, away_stats) ==
  LET home_attack_strength  == Div(home_stats.avg_goals_scored, Max(Dec(5, 10), league_avg_home_goals))
      away_defense_weakness == Div(away_stats.avg_goals_conceded, Max(Dec(5, 10), league_avg_away_conceded))
      away_attack_strength  == Div(away_stats.avg_goals_scored, Max(Dec(5, 10), league_avg_away_goals))
      home_defense_weakness == Div(home_stats.avg_goals_conceded, Max(Dec(5, 10), league_avg_home_conceded))
  IN  <<Mul(Mul(Mul(home_attack_strength, away_defense_weakness), league_avg_home_goals), Dec(12, 10)),
        Mul(Mul(Mul(away_attack_strength, home_defense_weakness), league_avg_away_goals), Dec(85, 100))>>

\* predict_over_under, lines 218-240: the mass over the threshold
max_goals_over == 10

\* the least integer total n with n > threshold
FirstOver(threshold) == threshold \div Scale + 1

\* the mass of the totals at or under the threshold
UnderMass(rates, threshold, use_poisson) ==
  IF use_poisson
  THEN FromJoint(JointMass(PoissonPmfRow(rates[1], max_goals_over),
                           PoissonPmfRow(rates[2], max_goals_over),
                           [i \in 1..(max_goals_over + 1) |-> 0],
                           [i \in 1..(max_goals_over + 1) |-> FirstOver(threshold) - 1 - (i - 1)]))
  ELSE LET expected_goals == rates[1] + rates[2]
       IN  IF expected_goals > threshold
           THEN Dec(5, 10) - Mul(expected_goals - threshold, Dec(15, 100))
           ELSE Dec(5, 10) + Mul(threshold - expected_goals, Dec(15, 100))

OverMass(rates, threshold, use_poisson) ==
  IF use_poisson
  THEN FromJoint(JointMass(PoissonPmfRow(rates[1], max_goals_over),
                           PoissonPmfRow(rates[2], max_goals_over),
                           [i \in 1..(max_goals_over + 1) |-> FirstOver(threshold) - (i - 1)],
                           [i \in 1..(max_goals_over + 1) |-> max_goals_over]))
  ELSE LET expected_goals == rates[1] + rates[2]
       IN  IF expected_goals > threshold
           THEN Dec(5, 10) + Mul(expected_goals - threshold, Dec(15, 100))
           ELSE Dec(5, 10) - Mul(threshold - expected_goals, Dec(15, 100))

\* predict_over_under, lines 242-262
OverAdjusted(probability, home_stats, away_stats) ==
  LET home_scoring_rate == Scale - Rate(home_stats.failed_to_score, home_stats.matches_played)
      away_scoring_rate == Scale - Rate(away_stats.failed_to_score, away_stats.matches_played)
      home_clean_sheet_rate == Rate(home_stats.clean_sheets, home_stats.matches_played)
      away_clean_sheet_rate == Rate(away_stats.clean_sheets, away_stats.matches_played)
      p1 == IF home_scoring_rate < Dec(5, 10) /\ away_scoring_rate < Dec(5, 10)
            THEN probability - Dec(1, 10)
            ELSE IF home_scoring_rate > Dec(8, 10) /\ away_scoring_rate > Dec(8, 10)
            THEN probability + Dec(1, 10)
            ELSE probability
      p2 == IF home_clean_sheet_rate > Dec(4, 10) /\ away_clean_sheet_rate > Dec(4, 10)
            THEN p1 - Dec(1, 10) ELSE p1
  IN  Clamp01(p2)

\* predict_over_under, lines 264-276
OverConfidence(probability, home_stats, away_stats) ==
  LET base == IF home_stats.matches_played >= 10 /\ away_stats.matches_played >= 10
              THEN Dec(7, 10) + Dec(2, 10)
              ELSE IF home_stats.matches_played >= 5 /\ away_stats.matches_played >= 5
              THEN Dec(7, 10) + Dec(1, 10)
              ELSE Dec(7, 10)
  IN  Clamp01(base + Min(Dec(2, 10), Mul(Abs(probability - Dec(5, 10)), Dec(4, 10))))

\* predict_over_under: the returned dict (probability and confidence in
\* tenths of a percent, expected_goals in hundredths)
predict_over_under(home_stats, away_stats, threshold, use_poisson) ==
  LET rates == OverUnderRates(home_stats, away_stats)
      probability == OverAdjusted(OverMass(rates, threshold, use_poisson), home_stats, away_stats)
  IN  [threshold |-> threshold,
       prediction |-> probability > Dec(5, 10),
       probability |-> RoundPercent1(probability),
       expected_goals |-> Round2(rates[1] + rates[2]),
       confidence |-> RoundPercent1(OverConfidence(probability, home_stats, away_stats))]

\* the thresholds of predict_match and the keys f"{threshold}" of its dict
Thresholds == <<Dec(15, 10), Dec(25, 10), Dec(35, 10), Dec(45, 10)>>
ThresholdKeys == <<"1.5", "2.5", "3.5", "4.5">>

\* an empty dict
EmptyDict == << >>

\* predict_match, lines 449-453
OverUnderPredictions(home_stats, away_stats, use_poisson) ==
  [key \in {ThresholdKeys[i] : i \in 1..Len(ThresholdKeys)} |->
     LET i == CHOOSE i \in 1..Len(ThresholdKeys) : ThresholdKeys[i] = key
     IN  predict_over_under(home_stats, away_stats, Thresholds[i], use_poisson)]

\* predict_match, lines 463-494: <<home_win_prob, draw_prob, away_win_prob>>
max_goals_outcome == 10

OutcomeProbabilities(home_expected_goals, away_expected_goals, use_poisson) ==
  IF use_poisson
  THEN LET rowH == PoissonPmfRow(home_expected_goals, max_goals_outcome)
           rowA == PoissonPmfRow(away_expected_goals, max_goals_outcome)
       IN  <<FromJoint(HomeWinMass(rowH, rowA, max_goals_outcome)),
             FromJoint(DrawMass(rowH, rowA, max_goals_outcome)),
             FromJoint(AwayWinMass(rowH, rowA, max_goals_outcome))>>
  ELSE LET total_goals == home_expected_goals + away_expected_goals
           hw == IF total_goals > 0
                 THEN Mul(Div(home_expected_goals, total_goals), Dec(6, 10))
                 ELSE Dec(45, 100)
           aw == IF total_goals > 0
                 THEN Mul(Div(away_expected_goals, total_goals), Dec(6, 10))
                 ELSE Dec(25, 100)
       IN  <<hw, Scale - hw - aw, aw>>

\* what a call returns: a Prediction, None, or a raised exception
NoPrediction == [kind |-> "none"]
Raised(exc) == [kind |-> "raise", exception |-> exc]

\* Prediction(...): the fields the constructor call does not pass keep their
\* dataclass defaults (empty dicts); scores and probabilities are fixed-point
Prediction(hw, d, aw, home_score, away_score, confidence, over_under, btts, first_half) ==
  [kind |-> "prediction",
   home_win_probability |-> hw, draw_probability |-> d, away_win_probability |-> aw,
   predicted_home_score |-> home_score, predicted_away_score |-> away_score,
   confidence |-> confidence,
   over_under_predictions |-> over_under,
   btts_prediction |-> btts,
   first_half_prediction |-> first_half]

\* Prediction.predicted_outcome: max(probs, key=probs.get) returns the first
\* of 'home', 'draw', 'away' that has the largest value
predicted_outcome(p) ==
  IF p.home_win_probability >= p.draw_probability /\ p.home_win_probability >= p.away_win_probability
  THEN "home"
  ELSE IF p.draw_probability >= p.away_win_probability THEN "draw" ELSE "away"

\* Prediction.to_dict: probabilities and confidence in tenths of a percent,
\* the scores as integers (the fields of 'match' are copied as they are and
\* left out here)
to_dict(p) ==
  [kind |-> "document",
   probabilities |-> [home |-> RoundPercent1(p.home_win_probability),
                      draw |-> RoundPercent1(p.draw_probability),
                      away |-> RoundPercent1(p.away_win_probability)],
   prediction |-> predicted_outcome(p),
   score |-> [home |-> RoundHalfEven(p.predicted_home_score),
              away |-> RoundHalfEven(p.predicted_away_score)],
   confidence |-> RoundPercent1(p.confidence),
   over_under |-> p.over_under_predictions,
   btts |-> p.btts_prediction,
   first_half |-> p.first_half_prediction]

\* prediction.to_dict() if prediction else None
to_dict_if(prediction) ==
  IF prediction.kind = "prediction" THEN to_dict(prediction) ELSE NoPrediction

\* get_team_stats (enhanced_predictor)
get_team_stats(team_id, reply) ==
  IF ~reply.ok THEN NoneStats
  ELSE calculate_averages(TeamStats(team_id, reply.played, reply.goals_for,
                                    reply.goals_against, reply.clean_sheet,
                                    reply.failed_to_score, reply.form))

\* get_h2h_stats (enhanced_predictor): the record has no attribute team1_wins
\* or team2_wins, so counting a decided meeting raises AttributeError and the
\* handler returns None
IsResolved(m) == m.home_score # NoScore /\ m.away_score # NoScore

get_h2h_stats(team1_id, reply) ==
  IF ~reply.ok THEN NoneH2H
  ELSE LET ms == reply.response
           decided == {i \in 1..Len(ms) : IsResolved(ms[i]) /\ ms[i].home_score # ms[i].away_score}
           drawn   == {i \in 1..Len(ms) : IsResolved(ms[i]) /\ ms[i].home_score = ms[i].away_score}
       IN  IF decided # {} THEN NoneH2H
           ELSE HeadToHeadStats(Len(ms), 0, 0, Cardinality(drawn), 0, 0, ms)

\* predict_match, lines 449-508: the Prediction built from the stored pair
\* read back from self.most_likely_score
EnhancedPrediction(home_stats, away_stats, ps, score_read, use_poisson) ==
  LET probs == OutcomeProbabilities(ps.home_expected_goals, ps.away_expected_goals, use_poisson)
  IN  Prediction(probs[1], probs[2], probs[3],
                 score_read[1] * Scale, score_read[2] * Scale, ps.confidence,
                 OverUnderPredictions(home_stats, away_stats, use_poisson),
                 EmptyDict, EmptyDict)

\* predict_match (enhanced_predictor), lines 427-441: None unless the match
\* has a date and both statistics lookups succeed
EnhancedInputsFail(match, home_stats, away_stats) ==
  match.date = NoDate \/ home_stats.none \/ away_stats.none

\* predict_match (enhanced_predictor) as one call: what it returns and what it
\* leaves in self.most_likely_score
predict_match(self_score, match, home_reply, away_reply, h2h_reply, use_poisson) ==
  LET home_stats == get_team_stats(match.home_team, home_reply)
      away_stats == get_team_stats(match.away_team, away_reply)
      h2h_stats  == get_h2h_stats(match.home_team, h2h_reply)
      ps         == predict_score(self_score, home_stats, away_stats, h2h_stats, use_poisson)
  IN  IF EnhancedInputsFail(match, home_stats, away_stats)
      THEN [ret |-> NoPrediction, most_likely_score |-> self_score]
      ELSE [ret |-> EnhancedPrediction(home_stats, away_stats, ps, ps.most_likely_score, use_poisson),
            most_likely_score |-> ps.most_likely_score]

(***************************************************************************)
(* betting/enhanced_predictor_fixed.py                                     *)
(***************************************************************************)
\* _poisson_pmf(k, mu) for k = 0..G (G < 20, where factorial(k) is not yet
\* capped at 19!): 0.0 for mu == 0, else exp(-mu) * mu**k / factorial(k)
PoissonPmfFixedRow(mu, G) ==
  IF mu = 0 THEN [k \in 1..(G + 1) |-> 0] ELSE PoissonRow(mu, G)

_poisson_pmf(k, mu) == PoissonPmfFixedRow(mu, k)[k + 1]

\* the nested calculate_form_consistency of calculate_expected_goals: the
\* value, or "raise" when wins + draws + losses is 0 (ZeroDivisionError)
Count(form, ch) == Cardinality({i \in 1..Len(form) : form[i] = ch})

FixedFormRaises(form) ==
  Len(form) >= 3 /\ Count(form, "W") + Count(form, "D") + Count(form, "L") = 0

FixedFormConsistency(form) ==
  IF Len(form) < 3 THEN Dec(5, 10)
  ELSE LET wins   == Count(form, "W")
           draws  == Count(form, "D")
           losses == Count(form, "L")
           consistency == Scale - DivInt(Max(wins, Max(draws, losses)) * Scale,
                                         wins + draws + losses)
       IN  Dec(5, 10) + Mul(consistency, Dec(5, 10))

\* _calculate_form_consistency (the method): the same computation as the
\* nested function; "raise" stands for its ZeroDivisionError
_calculate_form_consistency(form) ==
  IF FixedFormRaises(form) THEN Raised("ZeroDivisionError")
  ELSE [kind |-> "value",
        value |-> IF Len(form) < 3 THEN Dec(5, 10)
                  ELSE LET wins   == Count(form, "W")
                           draws  == Count(form, "D")
                           losses == Count(form, "L")
                           consistency == Scale - DivInt(Max(wins, Max(draws, losses)) * Scale,
                                                         wins + draws + losses)
                       IN  Dec(5, 10) + Mul(consistency, Dec(5, 10))]

\* calculate_expected_goals, lines 198-231
league_avg_goals == Dec(15, 10)

\* calculate_expected_goals, line 223: min(0.2, 5 / total_matches)
h2h_weight_fixed(h2h_stats) == Min(Dec(2, 10), DivInt(5 * Scale, h2h_stats.total_matches))

\* calculate_expected_goals, lines 199-203: total / max(1, matches_played)
PerMatchFixed(total, matches_played) == DivInt(total * Scale, Max(1, matches_played))

FixedRates(home_stats, away_stats, h2h_stats) ==
  LET home_goals_per_match == PerMatchFixed(home_stats.goals_scored, home_stats.matches_played)
      away_goals_per_match == PerMatchFixed(away_stats.goals_scored, away_stats.matches_played)
      home_goals_conceded_per_match == PerMatchFixed(home_stats.goals_conceded, home_stats.matches_played)
      away_goals_conceded_per_match == PerMatchFixed(away_stats.goals_conceded, away_stats.matches_played)
      home_attack_strength  == Div(home_goals_per_match, league_avg_goals)
      away_attack_strength  == Div(away_goals_per_match, league_avg_goals)
      home_defense_strength == Div(home_goals_conceded_per_match, league_avg_goals)
      away_defense_strength == Div(away_goals_conceded_per_match, league_avg_goals)
      home0 == Mul(Mul(home_attack_strength, away_defense_strength), league_avg_goals) + Dec(3, 10)
      away0 == Mul(Mul(away_attack_strength, home_defense_strength), league_avg_goals)
      played == Max(1, h2h_stats.home_wins + h2h_stats.draws + h2h_stats.away_wins)
  IN  IF h2h_stats.total_matches > 0
      THEN LET w == h2h_weight_fixed(h2h_stats)
           IN  <<Mul(home0, Scale - w) + Mul(DivInt(h2h_stats.goals_for * Scale, played), w),
                 Mul(away0, Scale - w) + Mul(DivInt(h2h_stats.goals_against * Scale, played), w)>>
      ELSE <<home0, away0>>

\* calculate_expected_goals, lines 233-266
min_matches == 5

\* confidence factors without the min(1.0, ...) caps
UncappedConfidenceFactors(home_stats, away_stats, h2h_stats) ==
  <<DivInt((home_stats.matches_played + away_stats.matches_played) * Scale, 2 * min_matches),
    DivInt(h2h_stats.total_matches * Scale, 5),
    DivInt(FixedFormConsistency(home_stats.form) + FixedFormConsistency(away_stats.form), 2)>>

FixedConfidenceFactors(home_stats, away_stats, h2h_stats) ==
  <<Min(Scale, DivInt((home_stats.matches_played + away_stats.matches_played) * Scale, 2 * min_matches)),
    Min(Scale, DivInt(h2h_stats.total_matches * Scale, 5)),
    DivInt(FixedFormConsistency(home_stats.form) + FixedFormConsistency(away_stats.form), 2)>>

\* calculate_expected_goals: any exception inside the try block (h2h_stats is
\* None, or a form of 3+ entries without W, D or L) is logged and replaced by
\* the defaults 1.5, 1.0, 0.5
ExpectedGoalsRaises(home_stats, away_stats, h2h_stats) ==
  h2h_stats.none \/ FixedFormRaises(home_stats.form) \/ FixedFormRaises(away_stats.form)

calculate_expected_goals(home_stats, away_stats, h2h_stats) ==
  IF ExpectedGoalsRaises(home_stats, away_stats, h2h_stats)
  THEN [home_expected_goals |-> Dec(15, 10), away_expected_goals |-> Scale,
        confidence |-> Dec(5, 10), failed |-> TRUE]
  ELSE LET rates == FixedRates(home_stats, away_stats, h2h_stats)
       IN  [home_expected_goals |-> rates[1], away_expected_goals |-> rates[2],
            confidence |-> WeightedConfidence(FixedConfidenceFactors(home_stats, away_stats, h2h_stats)),
            failed |-> FALSE]

\* predict_from_stats, lines 280-304: the 0..9 x 0..9 grid and the
\* normalisation by the total, skipped when the total is 0
max_goals_fixed == 9

FixedOutcomeProbabilities(home_goals, away_goals) ==
  LET rowH == PoissonPmfFixedRow(home_goals, max_goals_fixed)
      rowA == PoissonPmfFixedRow(away_goals, max_goals_fixed)
      hw   == FromJoint(HomeWinMass(rowH, rowA, max_goals_fixed))
      d    == FromJoint(DrawMass(rowH, rowA, max_goals_fixed))
      aw   == FromJoint(AwayWinMass(rowH, rowA, max_goals_fixed))
      total == hw + d + aw
  IN  IF total > 0 THEN <<Div(hw, total), Div(d, total), Div(aw, total)>>
      ELSE <<hw, d, aw>>

predict_from_stats(home_stats, away_stats, h2h_stats) ==
  LET eg    == calculate_expected_goals(home_stats, away_stats, h2h_stats)
      probs == FixedOutcomeProbabilities(eg.home_expected_goals, eg.away_expected_goals)
  IN  Prediction(probs[1], probs[2], probs[3],
                 eg.home_expected_goals, eg.away_expected_goals, eg.confidence,
                 EmptyDict, EmptyDict, EmptyDict)

\* get_team_stats (enhanced_predictor_fixed): no calculate_averages
get_team_stats_fixed(team_id, reply) ==
  IF ~reply.ok THEN NoneStats
  ELSE TeamStats(team_id, reply.played, reply.goals_for, reply.goals_against,
                 reply.clean_sheet, reply.failed_to_score, reply.form)

\* get_h2h_stats (enhanced_predictor_fixed): goals of team1 and team2 whoever
\* hosted; adding a None score raises TypeError and the handler returns the
\* empty HeadToHeadStats()
EmptyH2H == HeadToHeadStats(0, 0, 0, 0, 0, 0, << >>)

\* goals credited by venue: the host's goals, whoever team1 is
HostGoals(m, team1_id) == m.home_score

Team1Goals(m, team1_id) == IF m.home_team = team1_id THEN m.home_score ELSE m.away_score
Team2Goals(m, team1_id) == IF m.home_team = team1_id THEN m.away_score ELSE m.home_score

RECURSIVE SumTeam1Goals(_, _)
SumTeam1Goals(ms, team1_id) ==
  IF ms = << >> THEN 0 ELSE Team1Goals(Head(ms), team1_id) + SumTeam1Goals(Tail(ms), team1_id)

RECURSIVE SumTeam2Goals(_, _)
SumTeam2Goals(ms, team1_id) ==
  IF ms = << >> THEN 0 ELSE Team2Goals(Head(ms), team1_id) + SumTeam2Goals(Tail(ms), team1_id)

get_h2h_stats_fixed(team1_id, reply) ==
  IF ~reply.ok THEN EmptyH2H
  ELSE LET ms == reply.response
           idx == 1..Len(ms)
       IN  IF \E i \in idx : ~IsResolved(ms[i]) THEN EmptyH2H
           ELSE HeadToHeadStats(
                  Len(ms),
                  Cardinality({i \in idx : Team1Goals(ms[i], team1_id) > Team2Goals(ms[i], team1_id)}),
                  Cardinality({i \in idx : Team1Goals(ms[i], team1_id) < Team2Goals(ms[i], team1_id)}),
                  Cardinality({i \in idx : Team1Goals(ms[i], team1_id) = Team2Goals(ms[i], team1_id)}),
                  SumTeam1Goals(ms, team1_id),
                  SumTeam2Goals(ms, team1_id),
                  << >>)

\* predict_match (enhanced_predictor_fixed): reading match.season raises
\* AttributeError on an object without that attribute; the handler logs it
\* and returns None
HasAttr(obj, name) == name \in DOMAIN obj

predict_match_fixed(match, home_reply, away_reply, h2h_reply) ==
  IF ~HasAttr(match, "season") THEN NoPrediction
  ELSE LET home_stats == get_team_stats_fixed(match.home_team, home_reply)
           away_stats == get_team_stats_fixed(match.away_team, away_reply)
       IN  IF home_stats.none \/ away_stats.none THEN NoPrediction
           ELSE predict_from_stats(home_stats, away_stats,
                                   get_h2h_stats_fixed(match.home_team, h2h_reply))

\* a call predictor.predict_match(*args) on the fixed predictor: the method
\* takes one argument besides self, any other number raises TypeError before
\* the body runs; one argument is the match (the replies are what the
\* provider then answers)
call_predict_match_fixed(args, home_reply, away_reply, h2h_reply) ==
  IF Len(args) # 1 THEN Raised("TypeError")
  ELSE predict_match_fixed(args[1], home_reply, away_reply, h2h_reply)

(***************************************************************************)
(* betting/predictor.py                                                    *)
(***************************************************************************)
\* get_h2h_stats (predictor): None for a failed or empty answer; adding a
\* None score raises TypeError; and the constructor call passes team1_wins,
\* team2_wins, team1_goals and team2_goals, keywords the dataclass does not
\* take, so it raises TypeError too: the handler returns None
get_h2h_stats_base(team1_id, reply) ==
  IF ~reply.ok \/ reply.response = << >> THEN NoneH2H
  ELSE LET ms  == reply.response
           idx == 1..Len(ms)
       IN  IF \E i \in idx : ~IsResolved(ms[i]) THEN NoneH2H
           ELSE IF ~HasAttr(EmptyH2H, "team1_wins") THEN NoneH2H
           ELSE HeadToHeadStats(
                  Len(ms),
                  Cardinality({i \in idx : Team1Goals(ms[i], team1_id) > Team2Goals(ms[i], team1_id)}),
                  Cardinality({i \in idx : Team1Goals(ms[i], team1_id) < Team2Goals(ms[i], team1_id)}),
                  Cardinality({i \in idx : Team1Goals(ms[i], team1_id) = Team2Goals(ms[i], team1_id)}),
                  SumTeam1Goals(ms, team1_id),
                  SumTeam2Goals(ms, team1_id),
                  << >>)

\* 1.0 / (1.0 + 10 ** (-x * 0.5)) for a fixed-point x of any sign: with
\* t = 10 ** (-|x| * 0.5) the value is 1 / (1 + t) for x >= 0 and t / (1 + t)
\* for x < 0
Ln10 == Dec(23026, 10000)

Logistic(x) ==
  LET t == ExpNeg(Mul(Mul(Abs(x), Dec(5, 10)), Ln10))
  IN  IF x >= 0 THEN Div(Scale, Scale + t) ELSE Div(t, Scale + t)

\* predict_over_under (predictor): the dict {'over', 'under', 'expected_goals'}
predict_over_under_base(home_stats, away_stats, threshold) ==
  LET home_expected  == DivInt(home_stats.avg_goals_scored + away_stats.avg_goals_conceded, 2)
      away_expected  == DivInt(away_stats.avg_goals_scored + home_stats.avg_goals_conceded, 2)
      total_expected == home_expected + away_expected
      over_prob      == Logistic(total_expected - threshold)
  IN  [over |-> over_prob, under |-> Scale - over_prob, expected_goals |-> total_expected]

\* predict_match (predictor), lines 376-380: one result for each threshold
BaseOverUnderPredictions(home_stats, away_stats) ==
  [i \in 1..Len(Thresholds) |-> predict_over_under_base(home_stats, away_stats, Thresholds[i])]

\* predict_first_half (predictor): the dict {'home', 'draw', 'away'}
predict_first_half(home_stats, away_stats) ==
  LET home_expected == Mul(home_stats.avg_goals_scored + away_stats.avg_goals_conceded, Dec(45, 100))
      away_expected == Mul(away_stats.avg_goals_scored + home_stats.avg_goals_conceded, Dec(45, 100))
      home_win == Logistic(home_expected - away_expected)
      draw     == Div(Scale, Scale + Abs(home_expected - away_expected) * 2)
      away_win == Scale - home_win - draw
      total    == home_win + draw + away_win
  IN  [home |-> Div(home_win, total), draw |-> Div(draw, total), away |-> Div(away_win, total)]

\* calculate_form_points (predictor): 3 points for a W and 1 for a D, the
\* most recent result first, each older result weighted 0.8 of the one before
RECURSIVE FormPointsLoop(_, _, _)
FormPointsLoop(form, i, weight) ==
  IF i >= Len(form) THEN 0
  ELSE LET result == form[Len(form) - i]
           gain   == IF result = "W" THEN 3 * weight
                     ELSE IF result = "D" THEN weight
                     ELSE 0
       IN  gain + FormPointsLoop(form, i + 1, Mul(weight, Dec(8, 10)))

calculate_form_points(form) == FormPointsLoop(form, 0, Scale)

\* predict_score (predictor): calculate_form_factor and
\* calculate_form_consistency are names no module defines, so a form of five
\* or more results, or two non-empty forms, raise NameError; a record with a
\* meeting raises AttributeError at h2h_stats.team1_goals
ScoreBaseRaises(home_stats, away_stats, h2h_stats) ==
  \/ Len(home_stats.form) >= 5
  \/ Len(away_stats.form) >= 5
  \/ ~h2h_stats.none /\ h2h_stats.total_matches > 0 /\ ~HasAttr(h2h_stats, "team1_goals")
  \/ home_stats.form # << >> /\ away_stats.form # << >>

\* predict_score (predictor), lines 201-242 and 261-300, where it does not
\* raise: the rates and the confidence (the scan of lines 244-259 only sets
\* self.most_likely_score, which predict_match does not read)
predict_score_base(home_stats, away_stats, h2h_stats) ==
  LET home0 == Mul(DivInt(home_stats.avg_goals_scored + away_stats.avg_goals_conceded, 2), Dec(11, 10))
      away0 == Mul(DivInt(away_stats.avg_goals_scored + home_stats.avg_goals_conceded, 2), Dec(9, 10))
      rates == ScoreDampers(<<home0, away0>>, home_stats, away_stats)
  IN  [home_expected_goals |-> rates[1],
       away_expected_goals |-> rates[2],
       confidence |-> WeightedConfidence(<<MatchesFactor(home_stats, away_stats),
                                           H2HFactor(h2h_stats)>>)]

\* round(x * 100, 1) / 100
RoundedFraction(x) == DivInt(RoundPercent1(x) * Scale, 1000)

\* predict_match_outcome (predictor): <<home, draw, away>> as predict_match
\* stores them, outcome_prediction['probabilities'][...] / 100. predict_match
\* reaches it only with a record predict_score did not raise on, None or one
\* without a meeting, so the head-to-head shares are the defaults of lines
\* 327-330
predict_match_outcome(home_stats, away_stats, h2h_stats) ==
  LET home_form_points == calculate_form_points(home_stats.form)
      away_form_points == calculate_form_points(away_stats.form)
      home_advantage   == Dec(1, 10)
      form_total       == home_form_points + away_form_points + home_advantage
      form_home == IF form_total = 0 THEN Dec(45, 100)
                   ELSE Div(home_form_points + home_advantage, form_total)
      form_away == IF form_total = 0 THEN Dec(25, 100) ELSE Div(away_form_points, form_total)
      form_draw == IF form_total = 0 THEN Dec(3, 10) ELSE Scale - form_home - form_away
      h2h_home  == Dec(45, 100)
      h2h_away  == Dec(25, 100)
      h2h_draw  == Dec(3, 10)
      hw    == Mul(form_home, Dec(7, 10)) + Mul(h2h_home, Dec(3, 10))
      d     == Mul(form_draw, Dec(7, 10)) + Mul(h2h_draw, Dec(3, 10))
      aw    == Mul(form_away, Dec(7, 10)) + Mul(h2h_away, Dec(3, 10))
      total == hw + d + aw
  IN  <<RoundedFraction(Div(hw, total)), RoundedFraction(Div(d, total)),
        RoundedFraction(Div(aw, total))>>

\* predict_btts (predictor)
predict_btts(home_stats, away_stats) ==
  LET home_score_prob ==
        Min(Max(DivInt(DivInt(home_stats.avg_goals_scored + away_stats.avg_goals_conceded, 2), 3),
                Dec(1, 10)), Dec(9, 10))
      away_score_prob ==
        Min(Max(DivInt(DivInt(away_stats.avg_goals_scored + home_stats.avg_goals_conceded, 2), 3),
                Dec(1, 10)), Dec(9, 10))
      btts_prob == Mul(home_score_prob, away_score_prob)
  IN  [btts_yes |-> btts_prob, btts_no |-> Scale - btts_prob]

\* predict_match (predictor): None when a team is None (match.home_team.name
\* raises), when match.date is None (match.date.year raises), when a
\* statistics lookup fails, or when predict_score raises
predict_match_base(match, home_reply, away_reply, h2h_reply) ==
  LET home_stats == get_team_stats(match.home_team, home_reply)
      away_stats == get_team_stats(match.away_team, away_reply)
      h2h_stats  == get_h2h_stats_base(match.home_team, h2h_reply)
      ps         == predict_score_base(home_stats, away_stats, h2h_stats)
      outcome    == predict_match_outcome(home_stats, away_stats, h2h_stats)
  IN  IF match.home_team = NoTeam \/ match.away_team = NoTeam THEN NoPrediction
      ELSE IF match.date = NoDate \/ home_stats.none \/ away_stats.none THEN NoPrediction
      ELSE IF ScoreBaseRaises(home_stats, away_stats, h2h_stats) THEN NoPrediction
      ELSE Prediction(outcome[1], outcome[2], outcome[3],
                      ps.home_expected_goals, ps.away_expected_goals, ps.confidence,
                      BaseOverUnderPredictions(home_stats, away_stats),
                      predict_btts(home_stats, away_stats),
                      predict_first_half(home_stats, away_stats))

(***************************************************************************)
(* betting/api_client.py                                                   *)
(***************************************************************************)
\* what one requests.get of make_request meets: no answer at all (a
\* RequestException, status 0 here), or an answer with a status code; a 200
\* answer has a body that parses to a dict or does not, the dict has no
\* 'errors', empty 'errors' or some errors, and has a 'response' or not; a
\* 429 answer has a Retry-After header that int() accepts or not
Answer(status, body, errors, response, retry_after) ==
  [status |-> status, body |-> body, errors |-> errors, response |-> response,
   retry_after |-> retry_after]

Answers ==
  { Answer(0, "none", "absent", FALSE, "number"),
    Answer(200, "dict", "absent", TRUE, "number"),
    Answer(200, "dict", "empty", TRUE, "number"),
    Answer(200, "dict", "some", TRUE, "number"),
    Answer(200, "dict", "absent", FALSE, "number"),
    Answer(200, "garbage", "absent", FALSE, "number"),
    Answer(429, "none", "absent", FALSE, "number"),
    Answer(429, "none", "absent", FALSE, "text"),
    Answer(500, "none", "absent", FALSE, "number"),
    Answer(204, "none", "absent", FALSE, "number") }

\* any 200 answer counts
AcceptedAny(reply) == reply.status = 200

\* make_request, lines 96-104: the answer whose data is returned
Accepted(reply) ==
  reply.status = 200 /\ reply.body = "dict" /\ reply.errors # "some" /\ reply.response

\* lines 98-103: a 200 answer with errors or without 'response'
Rejected(reply) ==
  reply.status = 200 /\ reply.body = "dict" /\ (reply.errors = "some" \/ ~reply.response)

\* lines 106-110: a rate-limited answer that is waited for
RateLimited(reply) == reply.status = 429 /\ reply.retry_after = "number"

\* lines 115-127: a RequestException, raised by requests.get, by
\* raise_for_status for a status of 400 and above, or by response.json() where
\* its JSONDecodeError is a RequestException
Failed(reply) ==
  \/ reply.status = 0
  \/ reply.status >= 400 /\ reply.status # 429
  \/ reply.status = 200 /\ reply.body = "garbage"

\* lines 129-131: any other exception, raised by int() on the Retry-After
\* header or by response.json() where its error is a plain ValueError
Unexpected(reply) ==
  \/ reply.status = 429 /\ reply.retry_after = "text"
  \/ reply.status = 200 /\ reply.body = "garbage"

\* line 113: raise_for_status returns for a status under 400
PassedOver(reply) == reply.status # 0 /\ reply.status < 400 /\ reply.status # 200

NoData == [kind |-> "none"]
Data(reply) == [kind |-> "data", data |-> reply]

(***************************************************************************)
(* Inputs                                                                  *)
(***************************************************************************)
\* the team ids of test_prediction's two snapshots
HomeId == 1
AwayId == 2

\* the largest expected-goal rate the Poisson rows are evaluated at: beyond
\* it e^-mu is below the fixed-point resolution
RateCap == 8

WithinCap(rate) == rate >= 0 /\ rate <= RateCap * Scale

BelowCap(rate) == rate <= RateCap * Scale

\* the largest k _poisson_pmf is called with
MaxK == 9

Forms ==
  { << >>,
    <<"W", "W">>,
    <<"W", "W", "W">>,
    <<"W", "D", "L">>,
    <<"W", "W", "L", "W", "D">>,
    <<"L", "D", "W", "D", "L">>,
    <<"W", "W", "W", "W", "W">>,
    <<"W", "D", "W", "D", "W">> }

ShortForms == { << >>, <<"W", "W">>, <<"W", "W", "L", "W", "D">> }

\* head-to-head records: none, the empty HeadToHeadStats(), the record of
\* test_prediction, and one with three meetings (one hosted by the away team)
TestH2H == HeadToHeadStats(5, 2, 1, 2, 8, 6, << >>)
MeetingsH2H ==
  HeadToHeadStats(3, 1, 1, 1, 3, 3,
    <<Meeting(3, HomeId, AwayId, 2, 1), Meeting(2, AwayId, HomeId, 1, 0),
      Meeting(1, HomeId, AwayId, 1, 1)>>)

StatsInput(home_reply, away_reply, h2h_stats, use_poisson) ==
  [family |-> "stats", home_reply |-> home_reply, away_reply |-> away_reply,
   h2h_stats |-> h2h_stats, use_poisson |-> use_poisson,
   match |-> Match(0, HomeId, AwayId, NoDate, 0, NoScore, NoScore),
   h2h_reply |-> FailedH2HReply, k |-> 0, mu |-> 0]

\* Scenario A: 2.0 scored / 1.0 conceded over 20 matches at home, 1.0 / 1.5
\* over 20 matches away, no head-to-head record, any two forms
ScenarioAInputs ==
  { StatsInput(StatsReply(20, 40, 20, 5, 2, hf), StatsReply(20, 20, 30, 3, 3, af), h, p) :
      hf \in Forms, af \in Forms, h \in {NoneH2H, EmptyH2H}, p \in BOOLEAN }

\* two teams with the same statistics: s goals scored and c conceded a match
MatchesPlayed == {0, 5, 20}
GoalsPerMatch == {0, 1, 3}

IdenticalInputs ==
  { StatsInput(StatsReply(mp, s * mp, c * mp, q * (mp \div 2), q * (mp \div 4), f),
               StatsReply(mp, s * mp, c * mp, q * (mp \div 2), q * (mp \div 4), f), h, p) :
      mp \in MatchesPlayed, s \in GoalsPerMatch, c \in GoalsPerMatch, q \in {0, 1},
      f \in ShortForms, h \in {NoneH2H, EmptyH2H}, p \in BOOLEAN }

\* snapshots of unequal teams, the goal totals of test_prediction among them
\* (15 scored / 8 conceded and 10 / 12), with every kind of record
PlayedPairs == {<<0, 0>>, <<5, 5>>, <<10, 10>>, <<15, 15>>, <<20, 20>>, <<0, 20>>, <<20, 5>>}

SampleInputs ==
  { StatsInput(StatsReply(mps[1], 15, 8, 5, 2, fs[1]), StatsReply(mps[2], 10, 12, 3, 3, fs[2]), h, TRUE) :
      mps \in PlayedPairs,
      fs \in { <<f, f>> : f \in ShortForms } \cup
             { << <<"W", "W", "L", "W", "D">>, <<"L", "D", "W", "D", "L">> >> },
      h \in {NoneH2H, EmptyH2H, TestH2H, MeetingsH2H} }

\* records listing six or seven meetings in no particular order, the oldest
\* ones beyond the five most recent: all with scores, one recent meeting
\* without a score, and draws only (what get_h2h_stats can return)
SixMeetings ==
  <<Meeting(4, HomeId, AwayId, 2, 1), Meeting(1, AwayId, HomeId, 3, 0),
    Meeting(6, HomeId, AwayId, 0, 0), Meeting(2, AwayId, HomeId, 1, 1),
    Meeting(5, HomeId, AwayId, 1, 2), Meeting(3, AwayId, HomeId, 0, 1)>>

LongRecords ==
  { HeadToHeadStats(6, 2, 2, 2, 7, 5, SixMeetings),
    HeadToHeadStats(7, 2, 2, 2, 7, 5,
                    Append(SixMeetings, Meeting(7, HomeId, AwayId, NoScore, NoScore))),
    HeadToHeadStats(7, 2, 2, 3, 9, 7,
                    <<Meeting(7, AwayId, HomeId, 2, 2)>> \o SixMeetings),
    HeadToHeadStats(6, 0, 0, 6, 0, 0,
                    [i \in 1..6 |-> Meeting(7 - i, IF i % 2 = 0 THEN HomeId ELSE AwayId,
                                            IF i % 2 = 0 THEN AwayId ELSE HomeId, i % 3, i % 3)]) }

LongRecordInputs ==
  { StatsInput(StatsReply(20, 40, 20, 5, 2, <<"W", "W", "L", "W", "D">>),
               StatsReply(20, 20, 30, 3, 3, <<"L", "D", "W", "D", "L">>), h, p) :
      h \in LongRecords, p \in BOOLEAN }

StatsInputs == ScenarioAInputs \cup IdenticalInputs \cup SampleInputs \cup LongRecordInputs

\* calls of predict_match(match): the match and what the provider answers
Replies ==
  { FailedStatsReply,
    StatsReply(20, 40, 20, 5, 2, <<"W", "W", "L", "W", "D">>),
    StatsReply(20, 20, 30, 3, 3, <<"L", "D", "W", "D", "L">>),
    StatsReply(0, 0, 0, 0, 0, << >>) }

H2HReplies ==
  { FailedH2HReply,
    H2HReply(<< >>),
    H2HReply(<<Meeting(2, HomeId, AwayId, 1, 1), Meeting(1, AwayId, HomeId, 2, 2)>>),
    H2HReply(<<Meeting(2, HomeId, AwayId, 3, 1), Meeting(1, AwayId, HomeId, 0, 0)>>),
    H2HReply(<<Meeting(2, HomeId, AwayId, NoScore, NoScore)>>) }

MatchInputs ==
  { [family |-> "match", home_reply |-> hr, away_reply |-> ar, h2h_stats |-> NoneH2H,
     use_poisson |-> p, match |-> Match(100, HomeId, AwayId, d, 39, NoScore, NoScore),
     h2h_reply |-> h, k |-> 0, mu |-> 0] :
      hr \in Replies, ar \in Replies, h \in H2HReplies, d \in {NoDate, 7}, p \in BOOLEAN }

\* calls of _poisson_pmf(k, mu)
PmfRates == {0, Dec(3, 10), Scale, Dec(23, 10), 4 * Scale}

PmfInputs ==
  { [family |-> "pmf", home_reply |-> FailedStatsReply, away_reply |-> FailedStatsReply,
     h2h_stats |-> NoneH2H, use_poisson |-> TRUE,
     match |-> Match(0, HomeId, AwayId, NoDate, 0, NoScore, NoScore),
     h2h_reply |-> FailedH2HReply, k |-> k, mu |-> mu] :
      k \in 0..MaxK, mu \in PmfRates }

\* calls of get_h2h_stats(team1_id, team2_id): the provider answers with up to
\* MaxMeetings past meetings of the two teams, hosted by either, drawn, won
\* by the host, won by the visitor or without a score yet
MaxMeetings == 2

OtherTeam(team_id) == IF team_id = HomeId THEN AwayId ELSE HomeId

MeetingScores == {<<NoScore, NoScore>>, <<1, 1>>, <<2, 0>>, <<0, 1>>}

RECURSIVE MeetingLists(_)
MeetingLists(n) ==
  IF n = 0 THEN { << >> }
  ELSE { Append(ms, Meeting(n, host, OtherTeam(host), sc[1], sc[2])) :
           ms \in MeetingLists(n - 1), host \in {HomeId, AwayId}, sc \in MeetingScores }

H2HInputs ==
  { [family |-> "h2h", home_reply |-> FailedStatsReply, away_reply |-> FailedStatsReply,
     h2h_stats |-> NoneH2H, use_poisson |-> TRUE,
     match |-> Match(0, team1, OtherTeam(team1), NoDate, 0, NoScore, NoScore),
     h2h_reply |-> r, k |-> 0, mu |-> 0] :
      team1 \in {HomeId, AwayId},
      r \in {FailedH2HReply} \cup
            UNION { {H2HReply(ms) : ms \in MeetingLists(n)} : n \in 0..MaxMeetings } }

\* calls of the form-consistency functions: every form over W, D, L of up to
\* MaxFormLen results
MaxFormLen == 4

RECURSIVE FormsOfLen(_)
FormsOfLen(n) ==
  IF n = 0 THEN { << >> }
  ELSE { Append(f, r) : f \in FormsOfLen(n - 1), r \in {"W", "D", "L"} }

FormInputs ==
  { [family |-> "form", home_reply |-> StatsReply(0, 0, 0, 0, 0, f),
     away_reply |-> FailedStatsReply, h2h_stats |-> NoneH2H, use_poisson |-> TRUE,
     match |-> Match(0, HomeId, AwayId, NoDate, 0, NoScore, NoScore),
     h2h_reply |-> FailedH2HReply, k |-> 0, mu |-> 0] :
      f \in UNION { FormsOfLen(n) : n \in 0..MaxFormLen } }

\* answers of the provider that no code path validates: a negative number of
\* matches played and forms with entries outside W, D, L, beside one sound
\* answer
SoundReply == StatsReply(5, 5, 5, 1, 1, <<"W", "W", "L", "W", "D">>)

UncheckedReplies ==
  { StatsReply(-1, 4, 2, 1, 1, <<"W", "W", "L", "W", "D">>),
    StatsReply(5, 4, 2, 1, 1, <<"W", "X", "D", "W", "W">>),
    StatsReply(5, 4, 2, 1, 1, <<"X", "X", "X", "X", "X">>) }

UncheckedStatsInputs ==
  { [StatsInput(hr, ar, h, p) EXCEPT !.family = "unchecked"] :
      hr \in UncheckedReplies \cup {SoundReply}, ar \in UncheckedReplies \cup {SoundReply},
      h \in {NoneH2H, EmptyH2H, TestH2H}, p \in BOOLEAN }

\* snapshots with a negative goal total (so a negative average) and a
\* head-to-head record with a negative goal sum
NegativeReplies ==
  { StatsReply(5, -5, 5, 1, 1, <<"W", "W", "L", "W", "D">>),
    StatsReply(5, 5, -5, 1, 1, <<"W", "W", "L", "W", "D">>) }

NegativeH2H == HeadToHeadStats(5, 2, 1, 2, -8, 6, << >>)

NegativeInputs ==
  { [StatsInput(hr, ar, h, p) EXCEPT !.family = "unchecked"] :
      hr \in NegativeReplies \cup {SoundReply}, ar \in NegativeReplies \cup {SoundReply},
      h \in {EmptyH2H, NegativeH2H}, p \in BOOLEAN }

UncheckedMatchInputs ==
  { [family |-> "match", home_reply |-> hr, away_reply |-> ar, h2h_stats |-> NoneH2H,
     use_poisson |-> p, match |-> Match(100, HomeId, AwayId, 7, 39, NoScore, NoScore),
     h2h_reply |-> h, k |-> 0, mu |-> 0] :
      hr \in UncheckedReplies \cup {SoundReply}, ar \in UncheckedReplies \cup {SoundReply},
      h \in {FailedH2HReply, H2HReply(<< >>)}, p \in BOOLEAN }

Inputs ==
  StatsInputs \cup MatchInputs \cup PmfInputs \cup H2HInputs \cup FormInputs
    \cup UncheckedStatsInputs \cup NegativeInputs \cup UncheckedMatchInputs

\* calls of predict_match(match) made on one shared EnhancedMatchPredictor:
\* three matches whose statistics lookups succeed and one whose lookup fails
SharedReplies ==
  << <<StatsReply(20, 40, 20, 5, 2, <<"W", "W", "L", "W", "D">>),
       StatsReply(20, 20, 30, 3, 3, <<"L", "D", "W", "D", "L">>)>>,
     <<StatsReply(20, 20, 30, 3, 3, <<"L", "D", "W", "D", "L">>),
       StatsReply(20, 40, 20, 5, 2, <<"W", "W", "L", "W", "D">>)>>,
     <<StatsReply(20, 60, 20, 5, 2, <<"W", "W", "W", "W", "W">>),
       StatsReply(20, 40, 40, 3, 3, <<"W", "D", "W", "D", "L">>)>>,
     <<FailedStatsReply,
       StatsReply(20, 20, 30, 3, 3, <<"L", "D", "W", "D", "L">>)>> >>

SharedCalls ==
  { [match |-> Match(100 + i, HomeId, AwayId, 7, 39, NoScore, NoScore),
     home_reply |-> SharedReplies[i][1], away_reply |-> SharedReplies[i][2],
     h2h_reply |-> FailedH2HReply] : i \in 1..Len(SharedReplies) }

\* one process, with or without scipy installed, whose threads share a predictor
SharedInputs ==
  { [family |-> "shared", home_reply |-> FailedStatsReply, away_reply |-> FailedStatsReply,
     h2h_stats |-> NoneH2H, use_poisson |-> p,
     match |-> Match(0, HomeId, AwayId, NoDate, 0, NoScore, NoScore),
     h2h_reply |-> FailedH2HReply, k |-> 0, mu |-> 0] : p \in BOOLEAN }

(***************************************************************************)
(* State                                                                   *)
(***************************************************************************)
VARIABLES
  pc,                 \* "start": inputs chosen, "done": an operation has returned
  op,                 \* the operation that was called
  inp,                \* its inputs
  out,                \* what it returned
  most_likely_score,  \* self.most_likely_score of the EnhancedMatchPredictor
  threads,            \* the calls of predict_match in progress on that instance
  frame               \* the local variables of a call that runs as a loop

vars == <<pc, op, inp, out, most_likely_score, threads, frame>>

NoOutput == [kind |-> "nothing"]

\* the snapshots a call on the inputs works with
HomeStats(i) == get_team_stats(HomeId, i.home_reply)
AwayStats(i) == get_team_stats(AwayId, i.away_reply)
HomeStatsFixed(i) == get_team_stats_fixed(HomeId, i.home_reply)
AwayStatsFixed(i) == get_team_stats_fixed(AwayId, i.away_reply)

\* EnhancedMatchPredictor.__init__: self.most_likely_score = (0, 0)
InitialScore == <<0, 0>>

\* the threads that call predict_match on the shared instance; a thread is
\* "idle", has run predict_score ("scored"), has read self.most_likely_score
\* back ("read"), or has "returned"
Threads == {1, 2}

NoCall == [match |-> Match(0, HomeId, AwayId, NoDate, 0, NoScore, NoScore),
           home_reply |-> FailedStatsReply, away_reply |-> FailedStatsReply,
           h2h_reply |-> FailedH2HReply]

\* no loop is running
NoFrame == [attempt |-> 0, log |-> << >>]

IdleThread ==
  [pc |-> "idle", call |-> NoCall, found |-> InitialScore, ps |-> NoOutput,
   score |-> InitialScore, ret |-> NoOutput]

Init ==
  /\ pc = "start"
  /\ op = "none"
  /\ inp \in Inputs
  /\ out = NoOutput
  /\ most_likely_score = InitialScore
  /\ threads = [t \in Threads |-> IdleThread]
  /\ frame = NoFrame

Returns(name, value) ==
  /\ pc = "start"
  /\ pc' = "done"
  /\ op' = name
  /\ out' = value
  /\ UNCHANGED <<inp, threads, frame>>

CallPoissonPmf ==
  /\ inp.family = "pmf"
  /\ Returns("_poisson_pmf", [kind |-> "value", value |-> _poisson_pmf(inp.k, inp.mu)])
  /\ UNCHANGED most_likely_score

CallPredictScore ==
  /\ inp.family \in {"stats", "unchecked"}
  /\ LET ps == predict_score(most_likely_score, HomeStats(inp), AwayStats(inp),
                             inp.h2h_stats, inp.use_poisson)
     IN  /\ BelowCap(ps.home_expected_goals) /\ BelowCap(ps.away_expected_goals)
         /\ Returns("predict_score", ps)
         /\ most_likely_score' = ps.most_likely_score

CallPredictOverUnder ==
  /\ inp.family = "stats"
  /\ Returns("predict_over_under",
             OverUnderPredictions(HomeStats(inp), AwayStats(inp), inp.use_poisson))
  /\ UNCHANGED most_likely_score

CallPredictOverUnderBase ==
  /\ inp.family = "stats"
  /\ Returns("predict_over_under_base", BaseOverUnderPredictions(HomeStats(inp), AwayStats(inp)))
  /\ UNCHANGED most_likely_score

CallPredictFirstHalf ==
  /\ inp.family = "stats"
  /\ Returns("predict_first_half", predict_first_half(HomeStats(inp), AwayStats(inp)))
  /\ UNCHANGED most_likely_score

CallCalculateExpectedGoals ==
  /\ inp.family \in {"stats", "unchecked"}
  /\ Returns("calculate_expected_goals",
             calculate_expected_goals(HomeStatsFixed(inp), AwayStatsFixed(inp), inp.h2h_stats))
  /\ UNCHANGED most_likely_score

CallPredictFromStats ==
  /\ inp.family \in {"stats", "unchecked"}
  /\ LET eg == calculate_expected_goals(HomeStatsFixed(inp), AwayStatsFixed(inp), inp.h2h_stats)
     IN  WithinCap(eg.home_expected_goals) /\ WithinCap(eg.away_expected_goals)
  /\ Returns("predict_from_stats",
             predict_from_stats(HomeStatsFixed(inp), AwayStatsFixed(inp), inp.h2h_stats))
  /\ UNCHANGED most_likely_score

\* test_prediction: predictor.predict_match(home_stats, away_stats, h2h_stats)
CallTestPrediction ==
  /\ inp.family = "stats"
  /\ Returns("test_prediction",
             call_predict_match_fixed(
               <<HomeStatsFixed(inp), AwayStatsFixed(inp), inp.h2h_stats>>,
               inp.home_reply, inp.away_reply, inp.h2h_reply))
  /\ UNCHANGED most_likely_score

CallPredictMatch ==
  /\ inp.family = "match"
  /\ LET r == predict_match(most_likely_score, inp.match, inp.home_reply, inp.away_reply,
                            inp.h2h_reply, inp.use_poisson)
     IN  /\ Returns("predict_match", r.ret)
         /\ most_likely_score' = r.most_likely_score

\* the caller turns what the call name returned into a document
Documents(name, document_name) ==
  /\ pc = "done"
  /\ op = name
  /\ op' = document_name
  /\ out' = to_dict_if(out)
  /\ UNCHANGED <<pc, inp, most_likely_score, threads, frame>>

\* to_dict of what predict_match of the enhanced predictor has returned
\* (test_enhanced_predictor, lines 36-43)
CallToDict ==
  /\ inp.family = "match"
  /\ Documents("predict_match", "to_dict")

\* to_dict of what predict_from_stats of the fixed predictor has returned
CallToDictFixed ==
  /\ inp.family = "stats"
  /\ Documents("predict_from_stats", "to_dict_fixed")

CallPredictMatchFixed ==
  /\ inp.family = "match"
  /\ Returns("predict_match_fixed",
             call_predict_match_fixed(<<inp.match>>, inp.home_reply, inp.away_reply, inp.h2h_reply))
  /\ UNCHANGED most_likely_score

CallGetH2HStats ==
  /\ inp.family = "h2h"
  /\ Returns("get_h2h_stats", get_h2h_stats(inp.match.home_team, inp.h2h_reply))
  /\ UNCHANGED most_likely_score

CallGetH2HStatsFixed ==
  /\ inp.family = "h2h"
  /\ Returns("get_h2h_stats_fixed", get_h2h_stats_fixed(inp.match.home_team, inp.h2h_reply))
  /\ UNCHANGED most_likely_score

CallGetH2HStatsBase ==
  /\ inp.family = "h2h"
  /\ Returns("get_h2h_stats_base", get_h2h_stats_base(inp.match.home_team, inp.h2h_reply))
  /\ UNCHANGED most_likely_score

CallFormConsistency ==
  /\ inp.family = "form"
  /\ Returns("calculate_form_consistency",
             [kind |-> "value", value |-> calculate_form_consistency(inp.home_reply.form)])
  /\ UNCHANGED most_likely_score

CallFormConsistencyFixed ==
  /\ inp.family = "form"
  /\ Returns("_calculate_form_consistency", _calculate_form_consistency(inp.home_reply.form))
  /\ UNCHANGED most_likely_score

Next ==
  \/ CallPoissonPmf
  \/ CallPredictScore
  \/ CallPredictOverUnder
  \/ CallPredictOverUnderBase
  \/ CallPredictFirstHalf
  \/ CallCalculateExpectedGoals
  \/ CallPredictFromStats
  \/ CallTestPrediction
  \/ CallPredictMatch
  \/ CallToDict
  \/ CallToDictFixed
  \/ CallPredictMatchFixed
  \/ CallGetH2HStats
  \/ CallGetH2HStatsFixed
  \/ CallGetH2HStatsBase
  \/ CallFormConsistency
  \/ CallFormConsistencyFixed

Spec == Init /\ [][Next]_vars

(***************************************************************************)
(* predict_match on a shared EnhancedMatchPredictor, step by step          *)
(***************************************************************************)
InitShared ==
  /\ pc = "shared"
  /\ op = "predict_match"
  /\ inp \in SharedInputs
  /\ out = NoOutput
  /\ most_likely_score = InitialScore
  /\ threads = [t \in Threads |-> IdleThread]
  /\ frame = NoFrame

Quiescent(t) == threads[t].pc \in {"idle", "returned"}

\* predict_match, lines 427-444: the lookups, then predict_score, which
\* assigns self.most_likely_score (line 386 or 389) before it returns
ThreadCall(t) ==
  /\ Quiescent(t)
  /\ \E call \in SharedCalls :
       LET home_stats == get_team_stats(call.match.home_team, call.home_reply)
           away_stats == get_team_stats(call.match.away_team, call.away_reply)
           h2h_stats  == get_h2h_stats(call.match.home_team, call.h2h_reply)
       IN  IF EnhancedInputsFail(call.match, home_stats, away_stats)
           THEN /\ threads' = [threads EXCEPT ![t] =
                     [IdleThread EXCEPT !.pc = "returned", !.call = call,
                                        !.found = most_likely_score, !.ret = NoPrediction]]
                /\ UNCHANGED most_likely_score
           ELSE LET ps == predict_score(most_likely_score, home_stats, away_stats,
                                        h2h_stats, inp.use_poisson)
                IN  /\ threads' = [threads EXCEPT ![t] =
                          [IdleThread EXCEPT !.pc = "scored", !.call = call,
                                             !.found = most_likely_score, !.ps = ps]]
                    /\ most_likely_score' = ps.most_likely_score
  /\ UNCHANGED <<pc, op, inp, out, frame>>

\* predict_match, line 447: the pair is read back from the instance
ThreadReadScore(t) ==
  /\ threads[t].pc = "scored"
  /\ threads' = [threads EXCEPT ![t].pc = "read", ![t].score = most_likely_score]
  /\ UNCHANGED <<pc, op, inp, out, most_likely_score, frame>>

\* predict_match, lines 449-508: the Prediction is built and returned
ThreadReturn(t) ==
  /\ threads[t].pc = "read"
  /\ LET call == threads[t].call
         home_stats == get_team_stats(call.match.home_team, call.home_reply)
         away_stats == get_team_stats(call.match.away_team, call.away_reply)
     IN  threads' = [threads EXCEPT
           ![t].pc = "returned",
           ![t].ret = EnhancedPrediction(home_stats, away_stats, threads[t].ps,
                                         threads[t].score, inp.use_poisson)]
  /\ UNCHANGED <<pc, op, inp, out, most_likely_score, frame>>

\* threads call predict_match whenever they like
NextConc ==
  \/ \E t \in Threads : ThreadCall(t)
  \/ \E t \in Threads : ThreadReadScore(t)
  \/ \E t \in Threads : ThreadReturn(t)

SpecConc == InitShared /\ [][NextConc]_vars

\* a call starts only once every other call has returned
SequentialCall(t) ==
  /\ \A u \in Threads : Quiescent(u)
  /\ ThreadCall(t)

NextSeq ==
  \/ \E t \in Threads : SequentialCall(t)
  \/ \E t \in Threads : ThreadReadScore(t)
  \/ \E t \in Threads : ThreadReturn(t)

SpecSeq == InitShared /\ [][NextSeq]_vars

(***************************************************************************)
(* FootballApiClient.make_request(endpoint, params, max_retries): one step  *)
(* is one iteration of `for attempt in range(max_retries)`                 *)
(***************************************************************************)
\* the largest max_retries a call is made with
MaxRetries == 3

RequestInputs ==
  { [family |-> "request", max_retries |-> n] : n \in 0..MaxRetries }

InitRequest ==
  /\ pc = "request"
  /\ op = "make_request"
  /\ inp \in RequestInputs
  /\ out = NoOutput
  /\ most_likely_score = InitialScore
  /\ threads = [t \in Threads |-> IdleThread]
  /\ frame = NoFrame

\* the loop has an iteration left
Attempting == pc = "request" /\ frame.attempt < inp.max_retries

\* the iteration got the answer reply and the call returns value
RequestReturns(reply, value) ==
  /\ pc' = "done"
  /\ out' = value
  /\ frame' = [frame EXCEPT !.log = Append(@, reply)]
  /\ UNCHANGED <<op, inp, most_likely_score, threads>>

\* the iteration got the answer reply and the loop goes on
RequestContinues(reply) ==
  /\ frame' = [attempt |-> frame.attempt + 1, log |-> Append(frame.log, reply)]
  /\ UNCHANGED <<pc, op, inp, out, most_likely_score, threads>>

RequestAccepted ==
  /\ Attempting
  /\ \E reply \in Answers : Accepted(reply) /\ RequestReturns(reply, Data(reply))

RequestRejected ==
  /\ Attempting
  /\ \E reply \in Answers : Rejected(reply) /\ RequestReturns(reply, NoData)

RequestRateLimited ==
  /\ Attempting
  /\ \E reply \in Answers : RateLimited(reply) /\ RequestContinues(reply)

RequestFailed ==
  /\ Attempting
  /\ \E reply \in Answers :
       /\ Failed(reply)
       /\ IF frame.attempt = inp.max_retries - 1
          THEN RequestReturns(reply, NoData)
          ELSE RequestContinues(reply)

RequestUnexpected ==
  /\ Attempting
  /\ \E reply \in Answers : Unexpected(reply) /\ RequestReturns(reply, NoData)

RequestPassedOver ==
  /\ Attempting
  /\ \E reply \in Answers : PassedOver(reply) /\ RequestContinues(reply)

\* line 133: the loop has run out
RequestExhausted ==
  /\ pc = "request"
  /\ frame.attempt >= inp.max_retries
  /\ pc' = "done"
  /\ out' = NoData
  /\ UNCHANGED <<op, inp, most_likely_score, threads, frame>>

NextRequest ==
  \/ RequestAccepted
  \/ RequestRejected
  \/ RequestRateLimited
  \/ RequestFailed
  \/ RequestUnexpected
  \/ RequestPassedOver
  \/ RequestExhausted

\* the interpreter keeps running the loop: time.sleep returns
SpecRequest == InitRequest /\ [][NextRequest]_vars /\ WF_vars(NextRequest)

(***************************************************************************)
(* analyze_weekend_matches(leagues, use_enhanced) of betting/main.py: one   *)
(* step is one iteration of `for match in matches`                         *)
(***************************************************************************)
\* the longest list get_upcoming_matches returns
MaxMatches == 3

\* an upcoming match together with what the provider answers when its
\* prediction asks for statistics
Fixture(match, home_reply, away_reply) ==
  [match |-> match, home_reply |-> home_reply, away_reply |-> away_reply,
   h2h_reply |-> H2HReply(<<Meeting(2, HomeId, AwayId, 1, 1)>>)]

\* a match of two teams early in the season, one of them without a result yet;
\* one of two teams that have not played; one with a team the provider left
\* empty; one of two teams with five results of form; one whose statistics
\* lookup fails; one whose date is in no ISO format
Fixtures ==
  { Fixture(Match(101, HomeId, AwayId, 7, 39, NoScore, NoScore),
            StatsReply(4, 6, 3, 1, 1, <<"W", "D", "W", "L">>), StatsReply(0, 0, 0, 0, 0, << >>)),
    Fixture(Match(102, AwayId, HomeId, 7, 39, NoScore, NoScore),
            StatsReply(0, 0, 0, 0, 0, << >>), StatsReply(0, 0, 0, 0, 0, << >>)),
    Fixture(Match(103, NoTeam, AwayId, 7, 39, NoScore, NoScore), SoundReply, SoundReply),
    Fixture(Match(104, HomeId, AwayId, 7, 39, NoScore, NoScore), SoundReply, SoundReply),
    Fixture(Match(105, HomeId, AwayId, 7, 39, NoScore, NoScore), FailedStatsReply, SoundReply),
    Fixture(Match(106, HomeId, AwayId, NoDate, 39, NoScore, NoScore), SoundReply, SoundReply) }

RECURSIVE SeqsUpTo(_, _)
SeqsUpTo(S, n) ==
  IF n = 0 THEN { << >> }
  ELSE LET shorter == SeqsUpTo(S, n - 1)
       IN  shorter \cup { Append(s, x) : s \in shorter, x \in S }

MainInputs ==
  { [family |-> "main", use_enhanced |-> e, matches |-> ms] :
      e \in BOOLEAN, ms \in SeqsUpTo(Fixtures, MaxMatches) }

\* the locals of the call: the index of the match the loop is at, the list
\* predictions, and the matches the loop has entered
MainFrame(i, predictions, log) == [i |-> i, predictions |-> predictions, log |-> log]

InitMain ==
  /\ pc = "main"
  /\ op = "analyze_weekend_matches"
  /\ inp \in MainInputs
  /\ out = NoOutput
  /\ most_likely_score = InitialScore
  /\ threads = [t \in Threads |-> IdleThread]
  /\ frame = MainFrame(1, << >>, << >>)

\* line 89: the f-string reads match.home_team.name and match.away_team.name
LogLineRaises(match) == match.home_team = NoTeam \/ match.away_team = NoTeam

\* predictor.predict_match(match): EnhancedMatchPredictor is the class of
\* enhanced_predictor_fixed, MatchPredictor the one of predictor
predictor_predict_match(use_enhanced, fixture) ==
  IF use_enhanced
  THEN predict_match_fixed(fixture.match, fixture.home_reply, fixture.away_reply, fixture.h2h_reply)
  ELSE predict_match_base(fixture.match, fixture.home_reply, fixture.away_reply, fixture.h2h_reply)

\* prediction.to_dict(): the document carries the id of its match
MatchDocument(match, prediction) == [match_id |-> match.id, document |-> to_dict(prediction)]

\* a handler that leaves the loop
StopAfterError(i, n) == n + 1

\* lines 99-101: `continue` in the handler, the loop goes to the next match
AfterError(i, n) == i + 1

InLoop == pc = "main" /\ inp.matches # << >> /\ frame.i <= Len(inp.matches)

\* lines 81-83: `if not matches: return []`
MainNoMatches ==
  /\ pc = "main"
  /\ inp.matches = << >>
  /\ pc' = "done"
  /\ out' = << >>
  /\ UNCHANGED <<op, inp, most_likely_score, threads, frame>>

\* an iteration whose log line raises: the handler logs and continues
MainRaises ==
  /\ InLoop
  /\ LET fixture == inp.matches[frame.i]
     IN  /\ LogLineRaises(fixture.match)
         /\ frame' = MainFrame(AfterError(frame.i, Len(inp.matches)), frame.predictions,
                               Append(frame.log, fixture.match.id))
  /\ UNCHANGED <<pc, op, inp, out, most_likely_score, threads>>

\* an iteration whose prediction is a Prediction: its document is appended
MainPredicted ==
  /\ InLoop
  /\ LET fixture    == inp.matches[frame.i]
         prediction == predictor_predict_match(inp.use_enhanced, fixture)
     IN  /\ ~LogLineRaises(fixture.match)
         /\ prediction.kind = "prediction"
         /\ frame' = MainFrame(frame.i + 1,
                               Append(frame.predictions, MatchDocument(fixture.match, prediction)),
                               Append(frame.log, fixture.match.id))
  /\ UNCHANGED <<pc, op, inp, out, most_likely_score, threads>>

\* an iteration whose prediction is None: a warning, nothing appended
MainNotPredicted ==
  /\ InLoop
  /\ LET fixture    == inp.matches[frame.i]
         prediction == predictor_predict_match(inp.use_enhanced, fixture)
     IN  /\ ~LogLineRaises(fixture.match)
         /\ prediction.kind # "prediction"
         /\ frame' = MainFrame(frame.i + 1, frame.predictions,
                               Append(frame.log, fixture.match.id))
  /\ UNCHANGED <<pc, op, inp, out, most_likely_score, threads>>

\* lines 103-104: the loop is over, `return predictions`
MainReturn ==
  /\ pc = "main"
  /\ inp.matches # << >>
  /\ frame.i > Len(inp.matches)
  /\ pc' = "done"
  /\ out' = frame.predictions
  /\ UNCHANGED <<op, inp, most_likely_score, threads, frame>>

NextMain ==
  \/ MainNoMatches
  \/ MainRaises
  \/ MainPredicted
  \/ MainNotPredicted
  \/ MainReturn

SpecMain == InitMain /\ [][NextMain]_vars

(***************************************************************************)
(* Properties                                                              *)
(***************************************************************************)
Done(name) == pc = "done" /\ op = name

WinDrawAway(p) == p.home_win_probability + p.draw_probability + p.away_win_probability

\* the fixed-point sums are compared with 1 to within one percent, far
\* coarser than the rounding of the rows
SumTolerance == Dec(1, 100)

\* C1: the home-win, draw and away-win probabilities of the Prediction built
\* by predict_from_stats (fixed predictor) and by predict_match (enhanced
\* predictor) sum to 1, whatever the two expected-goal rates are
C1_ProbabilitiesSumToOne ==
  (pc = "done" /\ op \in {"predict_from_stats", "predict_match"} /\ out.kind = "prediction")
    => Abs(WinDrawAway(out) - Scale) <= SumTolerance

\* C2: _poisson_pmf(k, 0) is 1 for k = 0 and 0 for every k > 0
C2_PmfAtZeroRate ==
  (Done("_poisson_pmf") /\ inp.mu = 0)
    => out.value = (IF inp.k = 0 THEN Scale ELSE 0)

\* C3: under every interleaving of the calls running on the shared instance,
\* a returned Prediction carries the most likely score pair that predict_score
\* computed from the call's own inputs
C3_OwnScorePair ==
  \A t \in Threads :
    (threads[t].pc = "returned" /\ threads[t].ret.kind = "prediction")
      => /\ threads[t].ret.predicted_home_score = threads[t].ps.most_likely_score[1] * Scale
         /\ threads[t].ret.predicted_away_score = threads[t].ps.most_likely_score[2] * Scale

\* C4: on an instance used sequentially, what predict_match returns is what a
\* fresh instance returns for the same inputs, whatever pair earlier calls
\* left in self.most_likely_score
C4_SameAsFreshInstance ==
  \A t \in Threads :
    threads[t].pc = "returned"
      => threads[t].ret = predict_match(InitialScore, threads[t].call.match,
                                        threads[t].call.home_reply, threads[t].call.away_reply,
                                        threads[t].call.h2h_reply, inp.use_poisson).ret

\* a call has returned a Prediction on an instance where an earlier call had
\* left a pair that is neither the initial one nor the call's own
C4_Witness ==
  \E t \in Threads :
    /\ threads[t].pc = "returned"
    /\ threads[t].ret.kind = "prediction"
    /\ threads[t].found # InitialScore
    /\ threads[t].found # threads[t].ps.most_likely_score

\* C5: predict_match(match) of the fixed predictor returns a Prediction, not
\* None, for a Match built by Match.from_api whose two statistics lookups
\* succeed
C5_FixedPredictMatchReturns ==
  (Done("predict_match_fixed") /\ inp.home_reply.ok /\ inp.away_reply.ok)
    => out.kind = "prediction"

\* C6: a returned Prediction holds an over/under sub-result for each of the
\* thresholds 1.5, 2.5, 3.5 and 4.5, a non-empty both-teams-to-score
\* sub-result and a non-empty first-half sub-result
C6_SubResultsPresent ==
  (pc = "done" /\ op \in {"predict_from_stats", "predict_match"} /\ out.kind = "prediction")
    => /\ DOMAIN out.over_under_predictions = {ThresholdKeys[i] : i \in 1..Len(ThresholdKeys)}
       /\ DOMAIN out.btts_prediction # {}
       /\ DOMAIN out.first_half_prediction # {}

\* C7: for the Scenario A inputs, whatever the two forms are, the confidence
\* of predict_score and of calculate_expected_goals is greater than 0.7
C7_ScenarioAConfidence ==
  (pc = "done" /\ op \in {"predict_score", "calculate_expected_goals"} /\ inp \in ScenarioAInputs)
    => out.confidence > Dec(7, 10)

\* C8: for two teams with identical statistics and no head-to-head record
\* the home rate is strictly greater than the away rate, and the home-win
\* probability of the Prediction strictly greater than the away-win one
IdenticalTeams ==
  /\ inp.home_reply.ok
  /\ inp.home_reply = inp.away_reply
  /\ IF inp.family = "match"
     THEN ~inp.h2h_reply.ok \/ inp.h2h_reply.response = << >>
     ELSE inp.h2h_stats \in {NoneH2H, EmptyH2H}

C8_HomeAdvantage ==
  (pc = "done" /\ inp.family \in {"stats", "match"} /\ IdenticalTeams)
    => /\ op \in {"predict_score", "calculate_expected_goals"}
            => out.home_expected_goals > out.away_expected_goals
       /\ (op \in {"predict_from_stats", "predict_match"} /\ out.kind = "prediction")
            => out.home_win_probability > out.away_win_probability

\* C9: the call test_prediction makes, with two snapshots whose
\* matches_played is 0 and a head-to-head record, raises nothing and returns
\* a Prediction
C9_TestPredictionReturns ==
  (Done("test_prediction") /\ inp.home_reply.played = 0 /\ inp.away_reply.played = 0
     /\ ~inp.h2h_stats.none)
    => out.kind = "prediction"

\* C10: with the forms and the head-to-head record held equal, the confidence
\* of predict_score and of calculate_expected_goals for two teams with
\* matches_played = 0 is strictly lower than for two teams with
\* matches_played >= 15
EnoughPlayed == {15, 16, 20, 38}

WithPlayed(reply, mp) == [reply EXCEPT !.played = mp]

NothingPlayed == inp.family = "stats" /\ inp.home_reply.played = 0 /\ inp.away_reply.played = 0

InUnit(x) == 0 <= x /\ x <= Scale

AllInUnit(factors) == \A i \in 1..Len(factors) : InUnit(factors[i])

\* C11: the confidence of predict_score and of calculate_expected_goals lies
\* in [0, 1], and so does each of the factors it is blended from
C11_ConfidenceInUnitInterval ==
  (pc = "done" /\ inp.family = "stats")
    => /\ op = "predict_score"
            => /\ InUnit(out.confidence)
               /\ AllInUnit(ScoreConfidenceFactors(HomeStats(inp), AwayStats(inp), inp.h2h_stats))
       /\ op = "calculate_expected_goals"
            => /\ InUnit(out.confidence)
               /\ ~out.failed
                    => AllInUnit(FixedConfidenceFactors(HomeStatsFixed(inp), AwayStatsFixed(inp),
                                                        inp.h2h_stats))

\* calculate_expected_goals has returned for two teams with more than
\* 2 * min_matches matches between them and a record of five meetings, where
\* both caps are at work
C11_Witness ==
  /\ Done("calculate_expected_goals")
  /\ ~out.failed
  /\ inp.home_reply.played + inp.away_reply.played > 2 * min_matches
  /\ inp.h2h_stats.total_matches >= 5
  /\ Len(inp.home_reply.form) >= 3

\* the list ms with the meeting m put in after its first p entries
InsertAt(ms, p, m) == SubSeq(ms, 1, p) \o <<m>> \o SubSeq(ms, p + 1, Len(ms))

NullMeeting(host) == Meeting(MaxMeetings + 1, host, OtherTeam(host), NoScore, NoScore)

Aggregates(r) ==
  <<r.none, r.total_matches, r.home_wins, r.draws, r.away_wins, r.goals_for, r.goals_against>>

\* C12: a meeting without a score added to the list get_h2h_stats aggregates
\* leaves total_matches, the win/draw/loss counts and the goal sums of the
\* returned record as they are without it
C12_NullMeetingIgnored ==
  (pc = "done" /\ inp.family = "h2h" /\ inp.h2h_reply.ok)
    => \A p \in 0..Len(inp.h2h_reply.response), host \in {HomeId, AwayId} :
         LET longer == H2HReply(InsertAt(inp.h2h_reply.response, p, NullMeeting(host)))
             team1  == inp.match.home_team
         IN  /\ op = "get_h2h_stats"
                  => Aggregates(get_h2h_stats(team1, longer)) = Aggregates(out)
             /\ op = "get_h2h_stats_fixed"
                  => Aggregates(get_h2h_stats_fixed(team1, longer)) = Aggregates(out)
             /\ op = "get_h2h_stats_base"
                  => Aggregates(get_h2h_stats_base(team1, longer)) = Aggregates(out)

ResolvedCount(ms) == Cardinality({i \in 1..Len(ms) : IsResolved(ms[i])})

\* C13: for a non-empty list of past meetings get_h2h_stats returns a record,
\* not None, whose wins, draws and losses add up to the number of meetings
\* with both scores present
C13_CountsAddUp ==
  (pc = "done" /\ op \in {"get_h2h_stats", "get_h2h_stats_base"}
     /\ inp.h2h_reply.ok /\ inp.h2h_reply.response # << >>)
    => /\ ~out.none
       /\ out.home_wins + out.draws + out.away_wins = ResolvedCount(inp.h2h_reply.response)

\* the same meeting with the venue the other way round
FlipVenue(m) ==
  [m EXCEPT !.home_team = m.away_team, !.away_team = m.home_team,
            !.home_score = m.away_score, !.away_score = m.home_score]

Mirrored(r, q) ==
  /\ r.total_matches = q.total_matches
  /\ r.home_wins = q.away_wins
  /\ r.away_wins = q.home_wins
  /\ r.draws = q.draws
  /\ r.goals_for = q.goals_against
  /\ r.goals_against = q.goals_for

\* C14: get_h2h_stats(A, B) and get_h2h_stats(B, A) of the fixed predictor
\* over the same meetings are mirror images, and predict_score credits the
\* goals of a meeting to the same team whichever of the two hosted it
C14_VenueIndependent ==
  /\ Done("get_h2h_stats_fixed")
       => Mirrored(out, get_h2h_stats_fixed(inp.match.away_team, inp.h2h_reply))
  /\ (Done("predict_score") /\ ~inp.h2h_stats.none)
       => \A i \in 1..Len(inp.h2h_stats.matches) :
            LET flipped == [inp.h2h_stats EXCEPT !.matches[i] = FlipVenue(@)]
                rates   == ScoreRates(HomeStats(inp), AwayStats(inp), flipped)
            IN  /\ rates[1] = out.home_expected_goals
                /\ rates[2] = out.away_expected_goals

\* get_h2h_stats of the fixed predictor has returned a record built from two
\* meetings with scores, one of them won by team1 as the visitor
C14_Witness ==
  /\ Done("get_h2h_stats_fixed")
  /\ out.total_matches = 2
  /\ \E i \in 1..Len(inp.h2h_reply.response) :
       LET m == inp.h2h_reply.response[i]
       IN  m.away_team = inp.match.home_team /\ IsResolved(m) /\ m.away_score > m.home_score

\* min(0.4, 0.1 x min(total_matches, 4))
CappedTenths(total_matches) == Min(Dec(4, 10), Dec(1, 10) * Min(total_matches, 4))

\* C15: whenever a record with at least one meeting is blended into the
\* rates, the blend weight is min(0.4, 0.1 x min(total_matches, 4)), in
\* predict_score and in calculate_expected_goals
C15_BlendWeight ==
  (pc = "done" /\ inp.family = "stats" /\ ~inp.h2h_stats.none /\ inp.h2h_stats.total_matches >= 1)
    => /\ op = "predict_score"
            => h2h_weight(inp.h2h_stats) = CappedTenths(inp.h2h_stats.total_matches)
       /\ (op = "calculate_expected_goals" /\ ~out.failed)
            => h2h_weight_fixed(inp.h2h_stats) = CappedTenths(inp.h2h_stats.total_matches)

\* the meeting ms[i] has a score and at least five meetings with scores are
\* more recent
BeyondRecent(ms, i) ==
  /\ IsResolved(ms[i])
  /\ Cardinality({j \in 1..Len(ms) : IsResolved(ms[j]) /\ ms[j].date > ms[i].date}) >= 5

OtherScores == (0..3) \X (0..3)

\* C16: in predict_score, with more than five meetings with scores on the
\* record, another score for a meeting that is not among the five most recent
\* leaves both expected-goal rates as they are
C16_OldMeetingsIgnored ==
  (Done("predict_score") /\ ~inp.h2h_stats.none
     /\ ResolvedCount(inp.h2h_stats.matches) > 5)
    => \A i \in 1..Len(inp.h2h_stats.matches), sc \in OtherScores :
         BeyondRecent(inp.h2h_stats.matches, i)
           => LET changed == [inp.h2h_stats EXCEPT !.matches[i].home_score = sc[1],
                                                    !.matches[i].away_score = sc[2]]
                  rates   == ScoreRates(HomeStats(inp), AwayStats(inp), changed)
              IN  /\ rates[1] = out.home_expected_goals
                  /\ rates[2] = out.away_expected_goals

\* predict_score has returned for a record of seven meetings with scores,
\* two of them older than the five most recent
C16_Witness ==
  /\ Done("predict_score")
  /\ ~inp.h2h_stats.none
  /\ ResolvedCount(inp.h2h_stats.matches) = 7
  /\ Cardinality({i \in 1..7 : BeyondRecent(inp.h2h_stats.matches, i)}) = 2
  /\ out.home_expected_goals > 0

\* C17: of two forms of the same length >= 3 the one with fewer transitions
\* between consecutive results never gets the lower form-consistency value,
\* in calculate_form_consistency and in _calculate_form_consistency
C17_FewerTransitionsMoreConsistent ==
  (pc = "done" /\ inp.family = "form" /\ Len(inp.home_reply.form) >= 3
     /\ out.kind = "value")
    => \A g \in FormsOfLen(Len(inp.home_reply.form)) :
         Transitions(g) < Transitions(inp.home_reply.form)
           => /\ op = "calculate_form_consistency"
                   => calculate_form_consistency(g) >= out.value
              /\ op = "_calculate_form_consistency"
                   => _calculate_form_consistency(g).value >= out.value

\* the snapshot with avg_goals_scored raised by d, everything else as it is
ScoringMore(ts, d) == [ts EXCEPT !.avg_goals_scored = @ + d]

Increases == {1, Dec(1, 10), Scale, 3 * Scale}

\* C18: raising one team's avg_goals_scored, with every other input held
\* fixed, never lowers that team's expected-goal rate, in predict_score and
\* in calculate_expected_goals
C18_RateMonotoneInScoring ==
  (pc = "done" /\ inp.family = "stats")
    => \A d \in Increases :
         /\ op = "predict_score"
              => /\ ScoreRates(ScoringMore(HomeStats(inp), d), AwayStats(inp), inp.h2h_stats)[1]
                      >= out.home_expected_goals
                 /\ ScoreRates(HomeStats(inp), ScoringMore(AwayStats(inp), d), inp.h2h_stats)[2]
                      >= out.away_expected_goals
         /\ op = "calculate_expected_goals"
              => /\ calculate_expected_goals(ScoringMore(HomeStatsFixed(inp), d), AwayStatsFixed(inp),
                                             inp.h2h_stats).home_expected_goals
                      >= out.home_expected_goals
                 /\ calculate_expected_goals(HomeStatsFixed(inp), ScoringMore(AwayStatsFixed(inp), d),
                                             inp.h2h_stats).away_expected_goals
                      >= out.away_expected_goals

\* predict_score has returned positive rates for two teams with positive
\* scoring and conceding averages and a record that was blended in
C18_Witness ==
  /\ Done("predict_score")
  /\ HomeStats(inp).avg_goals_scored > Scale /\ AwayStats(inp).avg_goals_scored > 0
  /\ HomeStats(inp).avg_goals_conceded > 0 /\ AwayStats(inp).avg_goals_conceded > 0
  /\ ~inp.h2h_stats.none /\ inp.h2h_stats.matches # << >>
  /\ out.home_expected_goals > 0 /\ out.away_expected_goals > 0

\* C19: the home and away rates used inside predict_over_under are the rates
\* predict_score returns for the same call of predict_match
C19_OverUnderUsesScoreRates ==
  (Done("predict_match") /\ out.kind = "prediction")
    => LET home_stats == get_team_stats(inp.match.home_team, inp.home_reply)
           away_stats == get_team_stats(inp.match.away_team, inp.away_reply)
           h2h_stats  == get_h2h_stats(inp.match.home_team, inp.h2h_reply)
       IN  OverUnderRates(home_stats, away_stats) = ScoreRates(home_stats, away_stats, h2h_stats)

\* the margin left to the rounding of the fixed-point masses
MassTolerance == Dec(1, 100)

\* C20: with the Poisson mass available, predict_over_under predicts "over"
\* for a threshold exactly when the joint Poisson mass of the grid pairs (h, a)
\* with h + a > threshold exceeds 0.5, and the probability it reports lies
\* in [0, 100] (here in tenths of a percent)
C20_OverIffMassAboveHalf ==
  (Done("predict_over_under") /\ inp.use_poisson)
    => \A i \in 1..Len(Thresholds) :
         LET r    == out[ThresholdKeys[i]]
             mass == OverMass(OverUnderRates(HomeStats(inp), AwayStats(inp)), Thresholds[i], TRUE)
         IN  /\ r.prediction => mass > Dec(5, 10) - MassTolerance
             /\ ~r.prediction => mass <= Dec(5, 10) + MassTolerance
             /\ r.probability >= 0 /\ r.probability <= 1000

\* the pair score lies on the grid 0..G x 0..G and no pair of the grid has a
\* larger joint mass rowH[h + 1] * rowA[a + 1]
IsMostLikely(score, rowH, rowA, G) ==
  /\ score[1] \in 0..G /\ score[2] \in 0..G
  /\ \A h \in 0..G, a \in 0..G :
       rowH[score[1] + 1] * rowA[score[2] + 1] >= rowH[h + 1] * rowA[a + 1]

IsGoalCount(x) == x >= 0 /\ x % Scale = 0

\* C21: the predicted score pair of every Prediction is a pair of
\* non-negative integers with the largest joint Poisson probability among
\* the pairs of the grid for the call's expected-goal rates, both in
\* predict_from_stats (fixed predictor) and in predict_match (enhanced
\* predictor)
C21_ScoreIsGridMaximum ==
  /\ (Done("predict_from_stats") /\ out.kind = "prediction")
       => LET eg == calculate_expected_goals(HomeStatsFixed(inp), AwayStatsFixed(inp), inp.h2h_stats)
          IN  /\ IsGoalCount(out.predicted_home_score) /\ IsGoalCount(out.predicted_away_score)
              /\ IsMostLikely(<<out.predicted_home_score \div Scale, out.predicted_away_score \div Scale>>,
                              PoissonPmfFixedRow(eg.home_expected_goals, max_goals_fixed),
                              PoissonPmfFixedRow(eg.away_expected_goals, max_goals_fixed),
                              max_goals_fixed)
  /\ (Done("predict_match") /\ out.kind = "prediction")
       => LET home_stats == get_team_stats(inp.match.home_team, inp.home_reply)
              away_stats == get_team_stats(inp.match.away_team, inp.away_reply)
              rates == ScoreRates(home_stats, away_stats,
                                  get_h2h_stats(inp.match.home_team, inp.h2h_reply))
          IN  /\ IsGoalCount(out.predicted_home_score) /\ IsGoalCount(out.predicted_away_score)
              /\ IsMostLikely(<<out.predicted_home_score \div Scale, out.predicted_away_score \div Scale>>,
                              PoissonPmfRow(rates[1], max_goals_score),
                              PoissonPmfRow(rates[2], max_goals_score),
                              max_goals_score)

\* C22: the home, draw and away values returned by predict_first_half
\* (predictor) each lie in [0, 1] and sum to 1, for every two snapshots with
\* non-negative goal averages, two teams with the same averages included
C22_FirstHalfIsDistribution ==
  (Done("predict_first_half")
     /\ HomeStats(inp).avg_goals_scored >= 0 /\ HomeStats(inp).avg_goals_conceded >= 0
     /\ AwayStats(inp).avg_goals_scored >= 0 /\ AwayStats(inp).avg_goals_conceded >= 0)
    => /\ InUnit(out.home) /\ InUnit(out.draw) /\ InUnit(out.away)
       /\ Abs(out.home + out.draw + out.away - Scale) <= SumTolerance

\* C23: when the expected-goals computation fails internally (no head-to-head
\* record, or a form of three or more entries with no W, D or L among them),
\* predict_from_stats yields no Prediction
C23_FailureYieldsNoPrediction ==
  (Done("predict_from_stats")
     /\ ExpectedGoalsRaises(HomeStatsFixed(inp), AwayStatsFixed(inp), inp.h2h_stats))
    => out.kind # "prediction"

\* a snapshot the propagation policy calls structurally invalid
IsFormEntry(r) == r \in {"W", "D", "L"}

Invalid(reply) ==
  reply.ok /\ (reply.played < 0 \/ \E i \in 1..Len(reply.form) : ~IsFormEntry(reply.form[i]))

HasFailed(result) == "kind" \in DOMAIN result /\ result.kind = "raise"

\* C24: a snapshot with negative matches_played, or a form with an entry
\* outside {W, D, L}, makes the prediction fail with an error and no
\* Prediction, in predict_match (enhanced predictor) and in
\* predict_from_stats (fixed predictor)
C24_InvalidInputFailsLoudly ==
  ((Done("predict_match") \/ Done("predict_from_stats"))
     /\ (Invalid(inp.home_reply) \/ Invalid(inp.away_reply)))
    => HasFailed(out)

\* the per-match rates the goal model reads off a snapshot: the averages set
\* by calculate_averages, and the quotients of calculate_expected_goals
AveragesAreZero(ts) == ts.avg_goals_scored = 0 /\ ts.avg_goals_conceded = 0

FixedQuotientsAreZero(ts) ==
  /\ PerMatchFixed(ts.goals_scored, ts.matches_played) = 0
  /\ PerMatchFixed(ts.goals_conceded, ts.matches_played) = 0

\* C25: for a snapshot with matches_played = 0 the per-match goals-scored and
\* goals-conceded rates the goal model uses are 0 whatever the goal totals,
\* in TeamStats.calculate_averages (read by predict_score) and in
\* calculate_expected_goals of the fixed predictor
C25_ZeroPlayedZeroRates ==
  /\ Done("predict_score")
       => /\ HomeStats(inp).matches_played = 0 => AveragesAreZero(HomeStats(inp))
          /\ AwayStats(inp).matches_played = 0 => AveragesAreZero(AwayStats(inp))
  /\ Done("calculate_expected_goals")
       => /\ HomeStatsFixed(inp).matches_played = 0 => FixedQuotientsAreZero(HomeStatsFixed(inp))
          /\ AwayStatsFixed(inp).matches_played = 0 => FixedQuotientsAreZero(AwayStatsFixed(inp))

\* C26: both expected-goal rates returned by the goal model are non-negative
\* for every input, snapshots with negative counters or averages and records
\* with negative goal sums included, in predict_score and in
\* calculate_expected_goals
C26_RatesNonNegative ==
  (Done("predict_score") \/ Done("calculate_expected_goals"))
    => out.home_expected_goals >= 0 /\ out.away_expected_goals >= 0

\* a value of the document on the 0-100 scale read back as a fraction
ReadPercent(tenths) == DivInt(tenths * Scale, 1000)

\* half a unit of the one-decimal display rounding, 0.05 percentage points,
\* and one unit of the fixed-point representation
DisplayRounding == Dec(5, 10000) + 1

Recovers(doc, p) ==
  /\ doc.score.home * Scale = p.predicted_home_score
  /\ doc.score.away * Scale = p.predicted_away_score
  /\ Abs(ReadPercent(doc.confidence) - p.confidence) <= DisplayRounding
  /\ Abs(ReadPercent(doc.probabilities.home) - p.home_win_probability) <= DisplayRounding
  /\ Abs(ReadPercent(doc.probabilities.draw) - p.draw_probability) <= DisplayRounding
  /\ Abs(ReadPercent(doc.probabilities.away) - p.away_win_probability) <= DisplayRounding

\* C27: the document produced by to_dict gives back the Prediction's own
\* predicted score pair exactly, and its confidence and win/draw/loss
\* probabilities to within the one-decimal display rounding
C27_DocumentRoundTrip ==
  /\ (Done("to_dict") /\ out.kind = "document")
       => Recovers(out, predict_match(InitialScore, inp.match, inp.home_reply, inp.away_reply,
                                      inp.h2h_reply, inp.use_poisson).ret)
  /\ (Done("to_dict_fixed") /\ out.kind = "document")
       => Recovers(out, predict_from_stats(HomeStatsFixed(inp), AwayStatsFixed(inp), inp.h2h_stats))

\* C28: for fixed snapshots the over-probability of predict_over_under never
\* increases from one threshold of 1.5, 2.5, 3.5, 4.5 to a higher one, and
\* "over" is never predicted at a higher threshold when "under" is predicted
\* at a lower one; the over-probability of predictor.predict_over_under
\* never increases either
C28_OverMonotoneInThreshold ==
  \A i \in 1..Len(Thresholds), j \in 1..Len(Thresholds) :
    (i < j /\ Thresholds[i] < Thresholds[j])
      => /\ Done("predict_over_under")
              => /\ out[ThresholdKeys[i]].probability >= out[ThresholdKeys[j]].probability
                 /\ out[ThresholdKeys[j]].prediction => out[ThresholdKeys[i]].prediction
         /\ Done("predict_over_under_base") => out[i].over >= out[j].over

\* predict_over_under has returned probabilities that fall strictly from
\* each threshold to the next, with "over" predicted at 1.5 and "under" at 4.5
C28_Witness ==
  /\ Done("predict_over_under")
  /\ inp.use_poisson
  /\ \A i \in 1..(Len(Thresholds) - 1) :
       out[ThresholdKeys[i]].probability > out[ThresholdKeys[i + 1]].probability
  /\ out[ThresholdKeys[1]].prediction
  /\ ~out[ThresholdKeys[Len(Thresholds)]].prediction

\* the answers of the HTTP attempts a call of make_request has made so far
Attempts == frame.log

\* make_request makes at most max_retries HTTP attempts; it returns data only from an attempt answered with status 200,
\* a 'response' field and no non-empty 'errors', and None otherwise; and no
\* attempt follows a 200 answer with errors or without 'response'
C29_RequestInvariant ==
  (op = "make_request" /\ pc \in {"request", "done"})
    => /\ Len(Attempts) <= inp.max_retries
       /\ pc = "done" => out \in {NoData} \cup {Data(reply) : reply \in Answers}
       /\ (pc = "done" /\ out.kind = "data")
            => /\ Attempts # << >>
               /\ Accepted(Attempts[Len(Attempts)])
               /\ out = Data(Attempts[Len(Attempts)])
       /\ \A k \in 1..Len(Attempts) :
            Rejected(Attempts[k]) => k = Len(Attempts) /\ pc = "done" /\ out = NoData

\* C29: every call of make_request keeps to the above at every step and
\* returns in the end
C29_RequestTerminates ==
  [](C29_RequestInvariant) /\ <>(pc = "done")

\* make_request has returned the data of its third attempt, after a
\* rate-limited answer and a failed request
C29_Witness ==
  /\ op = "make_request" /\ pc = "done"
  /\ out.kind = "data"
  /\ Len(Attempts) = 3
  /\ RateLimited(Attempts[1])
  /\ Failed(Attempts[2])

\* the documents of the matches, in order, whose prediction is a Prediction
RECURSIVE DocumentsOf(_, _)
DocumentsOf(use_enhanced, matches) ==
  IF matches = << >> THEN << >>
  ELSE LET fixture    == Head(matches)
           prediction == predictor_predict_match(use_enhanced, fixture)
           rest       == DocumentsOf(use_enhanced, Tail(matches))
       IN  IF ~LogLineRaises(fixture.match) /\ prediction.kind = "prediction"
           THEN <<MatchDocument(fixture.match, prediction)>> \o rest
           ELSE rest

Skipped(use_enhanced, fixture) ==
  LogLineRaises(fixture.match) \/ predictor_predict_match(use_enhanced, fixture).kind # "prediction"

\* C30: when analyze_weekend_matches returns, the loop has entered every match
\* in order, also those after a match whose prediction was None or raised;
\* the returned list is the documents, in the order of the matches, of exactly
\* the matches whose prediction succeeded, and is no longer than the list of
\* matches
C30_FailuresAreSkipped ==
  Done("analyze_weekend_matches") =>
    /\ inp.matches # << >> =>
         frame.log = [i \in 1..Len(inp.matches) |-> inp.matches[i].match.id]
    /\ out = DocumentsOf(inp.use_enhanced, inp.matches)
    /\ Len(out) <= Len(inp.matches)
    /\ \A j \in 1..Len(out) : out[j].document.kind = "document"

\* a returned call over three matches: the log line of one raised, the
\* prediction of another was None, and a later match has its document
C30_Witness ==
  /\ Done("analyze_weekend_matches")
  /\ Len(inp.matches) = 3
  /\ LogLineRaises(inp.matches[1].match)
  /\ ~LogLineRaises(inp.matches[2].match)
  /\ Skipped(inp.use_enhanced, inp.matches[2])
  /\ Len(out) = 1
  /\ out[1].match_id = inp.matches[3].match.id

=========================================================================
